---- MODULE Spec2Model ----
(***************************************************************************)
(* The non-blocking run loop of the SQL terminal client and its async      *)
(* bridge: App::new (startup), App::run, App::handle_key,                  *)
(* App::handle_mouse, App::start_query, App::check_query_completion, the   *)
(* background task start_query spawns, the shared connection mutex of      *)
(* DbConnection and QueryHistory::add.                                     *)
(*                                                                         *)
(* Text is a sequence of characters over Chars; Option<T> is the empty     *)
(* tuple (None) or a one-element tuple (Some).  The fields timestamp and   *)
(* database of a history entry and the editor's scroll offsets are never   *)
(* read by the code modelled here and are left out.                        *)
(***************************************************************************)
EXTENDS Integers, Sequences, FiniteSets, TLC

\* ------------------------------------------------------------- bounds
MaxLen == 1        \* longest editor text the operator types
MaxTasks == 2      \* background tasks spawned during one run
MaxRows == 2       \* most rows of a driver result
MaxTime == 1       \* longest execution time (ms) of a driver result
MaxWait == 2       \* loop iterations that find the channel still empty, per query

\* ------------------------------------------------- program constants
SpinnerFrames == 10    \* SPINNER_FRAMES.len()
HistoryMax == 1000     \* QueryHistory::new(1000)
MaxLookups == 2        \* catalog lookups of the date-cast rewriter in one execute
SchemaTrips == 3       \* get_tables, get_views, get_procedures under one lock
ScrollAmount == 3      \* lines per mouse scroll event
StatsCount == 10       \* fixed stats count of the Stats tab
PageAmount == 20       \* rows per PageUp and PageDown
MinWidth == 4          \* least max_width of a column

Chars == {"a", " "}
Whitespace == {" ", "\n"}

None == <<>>
Some(x) == <<x>>

\* the sequences over S of length up to n
SeqsUpTo(S, n) == UNION {[1..k -> S] : k \in 0..n}

IsSome(o) == Len(o) = 1
Unwrap(o) == o[1]

Max(a, b) == IF a >= b THEN a ELSE b
Min(a, b) == IF a < b THEN a ELSE b
SatSub(a, b) == IF a > b THEN a - b ELSE 0

\* str::trim: leading and trailing whitespace removed
RECURSIVE TrimStart(_)
TrimStart(s) ==
    IF s # <<>> /\ Head(s) \in Whitespace THEN TrimStart(Tail(s)) ELSE s

RECURSIVE TrimEnd(_)
TrimEnd(s) ==
    IF s # <<>> /\ s[Len(s)] \in Whitespace
    THEN TrimEnd(SubSeq(s, 1, Len(s) - 1))
    ELSE s

Trim(s) == TrimEnd(TrimStart(s))

\* ------------------------------------------- text, character by character
\* A text is the sequence of its characters.  The letters the texts of this
\* model use, lower case and upper case in the same order:
Lower == <<"a", "b", "c", "d", "e", "f", "g", "h", "i", "j", "k", "l", "m", "n", "o",
           "p", "q", "r", "s", "t", "u", "v", "w", "x", "y", "z", "é">>
Upper == <<"A", "B", "C", "D", "E", "F", "G", "H", "I", "J", "K", "L", "M", "N", "O",
           "P", "Q", "R", "S", "T", "U", "V", "W", "X", "Y", "Z", "É">>
Digits == {"0", "1", "2", "3", "4", "5", "6", "7", "8", "9"}

\* char::to_uppercase and str::to_uppercase
UpperChar(c) ==
    IF \E i \in 1..Len(Lower) : Lower[i] = c
    THEN Upper[CHOOSE i \in 1..Len(Lower) : Lower[i] = c]
    ELSE c

ToUpper(s) == [i \in 1..Len(s) |-> UpperChar(s[i])]

\* str::starts_with
StartsWith(s, p) == Len(p) <= Len(s) /\ SubSeq(s, 1, Len(p)) = p

\* the byte offsets (from 0) at which p occurs in s
Occurrences(s, p) ==
    {i \in 0..(Len(s) - Len(p)) : SubSeq(s, i + 1, i + Len(p)) = p}

\* str::contains and str::find: find gives None or the first offset
Contains(s, p) == Occurrences(s, p) # {}
Find(s, p) ==
    IF Occurrences(s, p) = {}
    THEN None
    ELSE Some(CHOOSE i \in Occurrences(s, p) : \A j \in Occurrences(s, p) : i <= j)

\* &s[from..], from counted from 0
SliceFrom(s, from) == SubSeq(s, from + 1, Len(s))

\* chars().take_while(..).collect() for the characters outside `stop`
RECURSIVE TakeUntil(_, _)
TakeUntil(s, stop) ==
    IF s = <<>> \/ Head(s) \in stop THEN <<>> ELSE <<Head(s)>> \o TakeUntil(Tail(s), stop)

\* chars().take_while(..).collect() for the characters inside `keep`
RECURSIVE TakeWhileIn(_, _)
TakeWhileIn(s, keep) ==
    IF s = <<>> \/ Head(s) \notin keep THEN <<>> ELSE <<Head(s)>> \o TakeWhileIn(Tail(s), keep)

\* [String]::join
RECURSIVE Join(_, _)
Join(parts, sep) ==
    IF parts = <<>> THEN <<>>
    ELSE IF Len(parts) = 1 THEN Head(parts)
    ELSE Head(parts) \o sep \o Join(Tail(parts), sep)

\* str::split(sep).collect(): the parts between the separators
RECURSIVE Split(_, _)
Split(s, sep) ==
    IF \A i \in 1..Len(s) : s[i] # sep
    THEN <<s>>
    ELSE LET k == CHOOSE i \in 1..Len(s) : s[i] = sep /\ \A j \in 1..(i - 1) : s[j] # sep
         IN <<SubSeq(s, 1, k - 1)>> \o Split(SubSeq(s, k + 1, Len(s)), sep)

\* str::replace(['[', ']'], ""): the text without the characters of `drop`
Without(s, drop) == SelectSeq(s, LAMBDA c : c \notin drop)

\* "SELECT"
KwSelect ==
    <<"S", "E", "L", "E", "C", "T">>
\* "SELECT *"
KwSelectStar ==
    <<"S", "E", "L", "E", "C", "T", " ", "*">>
\* "SELECT TOP"
KwSelectTop ==
    <<"S", "E", "L", "E", "C", "T", " ", "T", "O", "P">>
\* " * "
KwSpacedStar ==
    <<" ", "*", " ">>
\* "*"
KwStar ==
    <<"*">>
\* " FROM "
KwFrom ==
    <<" ", "F", "R", "O", "M", " ">>
\* "TOP "
KwTop ==
    <<"T", "O", "P", " ">>
\* "CONVERT(VARCHAR(10), ["
CastOpen ==
    <<"C", "O", "N", "V", "E", "R", "T", "(", "V", "A", "R", "C", "H", "A", "R", "(",
      "1", "0", ")", ",", " ", "[">>
\* "], 23) AS ["
CastMid ==
    <<"]", ",", " ", "2", "3", ")", " ", "A", "S", " ", "[">>
\* ",\n    "
DefsSep ==
    <<",", "\n", " ", " ", " ", " ">>

\* ------------------------------------------------------ query results
\* columns and rows stand for columns.len() and rows.len(); row_count is rows.len()
QueryResultEmpty == [columns |-> 0, rows |-> 0, time |-> 0]

\* what the driver answers: no rows, which leaves the column list empty
\* (process_results), or MaxRows rows of two columns
DriverResults ==
    {[columns |-> 0, rows |-> 0, time |-> 0],
     [columns |-> 2, rows |-> MaxRows, time |-> MaxTime]}

\* an anyhow error as its chain of messages: the error, then its sources
DriverErrors == {<<"Token error", "connection reset">>}

\* the chain flattened as the background task does before sending it
RECURSIVE CausedBy(_)
CausedBy(chain) ==
    IF chain = <<>> THEN <<>>
    ELSE <<" | Caused by: ", Head(chain)>> \o CausedBy(Tail(chain))

ErrorMsg(e) == <<Head(e)>> \o CausedBy(Tail(e))

\* e.to_string(): the outermost message alone
ErrorToString(e) == <<Head(e)>>

InterruptedMsg == <<"Query execution was interrupted">>

NoOutcome == [ok |-> FALSE, res |-> QueryResultEmpty, err |-> <<>>]
OkOutcome(r) == [ok |-> TRUE, res |-> r, err |-> <<>>]
ErrOutcome(e) == [ok |-> FALSE, res |-> QueryResultEmpty, err |-> e]
ExecuteOutcomes ==
    {OkOutcome(r) : r \in DriverResults} \cup {ErrOutcome(e) : e \in DriverErrors}

ConnectedMessage == [kind |-> "connected", rows |-> 0, time |-> 0]
RowsMessage(r) == [kind |-> "rows", rows |-> r.rows, time |-> r.time]

\* ------------------------------------------------------------ history
HistoryEntry(q, t, n) == [query |-> q, time |-> t, rows |-> n]

RECURSIVE Evict(_, _)
Evict(entries, max) ==
    IF Len(entries) > max THEN Evict(Tail(entries), max) ELSE entries

\* a test that finds the trimmed text anywhere in the history
SameAsAny(h, q) ==
    \E i \in 1..Len(h.entries) : Trim(h.entries[i].query) = Trim(q)

\* the test of add's early return: the last entry holds the same trimmed text
SameAsLast(h, q) ==
    h.entries # <<>> /\ Trim(h.entries[Len(h.entries)].query) = Trim(q)

\* add without the comparison with the last entry
HistoryAddAlways(h, max, q, t, n) ==
    [h EXCEPT !.entries = Evict(Append(h.entries, HistoryEntry(q, t, n)), max),
              !.current_index = None]

\* add that leaves the recall cursor where it stands
HistoryAddKeepsCursor(h, max, q, t, n) ==
    IF SameAsLast(h, q)
    THEN h
    ELSE [h EXCEPT !.entries = Evict(Append(h.entries, HistoryEntry(q, t, n)), max)]

\* QueryHistory::add up to its call of save
HistoryAdd(h, max, q, t, n) ==
    IF SameAsLast(h, q)
    THEN h
    ELSE [h EXCEPT !.entries = Evict(Append(h.entries, HistoryEntry(q, t, n)), max),
                   !.current_index = None]

\* add that gives up the new entry when save fails
HistoryAddThenSaveOrUndo(h, max, q, t, n, saved) ==
    IF saved THEN HistoryAdd(h, max, q, t, n) ELSE h

\* QueryHistory::add as a whole: `let _ = self.save()` drops save's outcome
HistoryAddThenSave(h, max, q, t, n, saved) == HistoryAdd(h, max, q, t, n)

\* the editor text App::new starts with (a fixed, non-blank SELECT)
DefaultQuery == <<"a">>

\* what QueryHistory::load may find on disk
LoadedEntries == {<<>>}

\* ------------------------------------------------------------- state
TaskIds == 1..MaxTasks
Fg == 0                       \* the foreground's own use of the connection
OpIds == {Fg} \cup TaskIds

VARIABLES
    pc,                   \* where the foreground is: startup phase or run-loop step
    query, cursor_pos,
    result, is_loading, error, message,
    active_panel, results_tab, show_help,
    results_scroll, results_selected, results_col_selected,
    history, spinner_frame,
    pending_query,        \* Option of the channel whose receiver is held
    pending_query_text,
    should_quit,
    op,                   \* per connection user: st, trips, out
    chan,                 \* per task: the one-shot channel, st and val
    lock,                 \* holders of the connection mutex
    wire,                 \* users with a request sent and not yet answered
    spawned,              \* tasks spawned so far
    consumed,             \* per task: outcomes taken off its channel
    last,                 \* what the foreground's last step did
    call,                 \* the last call made on the history alone
    ret,                  \* what the last call of previous() or next() returned
    batch,                \* the queries execute_batch was called with
    catalog,              \* the columns of the table the queries name
    ex_pc,                \* where execute_batch is: loop, dates, cols, query, returned
    ex_i,                 \* the query of the batch execute is at, from 1
    ex_dates,             \* what get_date_columns returned to try_fix_date_columns
    sent,                 \* every request sent to the driver, in order
    answers,              \* every answer of the driver, in order
    results,              \* the results execute_batch has pushed
    batch_ret,            \* what execute_batch returned
    cell,                 \* the cell extract_cell_value was called with
    decoded               \* what extract_cell_value made of it

uiVars == <<query, cursor_pos, result, is_loading, error, message, active_panel,
            results_tab, show_help, results_scroll, results_selected,
            results_col_selected, history, spinner_frame, pending_query,
            pending_query_text, should_quit>>
bgVars == <<op, chan, lock, wire, spawned>>
\* everything of the application but its history
appVars == <<pc, query, cursor_pos, result, is_loading, error, message, active_panel,
             results_tab, show_help, results_scroll, results_selected,
             results_col_selected, spinner_frame, pending_query, pending_query_text,
             should_quit, bgVars, consumed, last>>
histVars == <<call, ret>>
execVars == <<batch, catalog, ex_pc, ex_i, ex_dates, sent, answers, results,
              batch_ret>>
decVars == <<cell, decoded>>
libVars == <<histVars, execVars, decVars>>
vars == <<pc, uiVars, bgVars, consumed, last, libVars>>

IdleOp == [st |-> "none", trips |-> 0, out |-> NoOutcome]
NoChan == [st |-> "none", val |-> NoOutcome]

\* QueryHistory::new: the entries are what load finds in the history file
QueryHistoryNew(max, loaded) ==
    [entries |-> loaded, max_entries |-> max, current_index |-> None]

\* op and q: the method and its text; was: the cursor before the call; pushed:
\* whether add pushed an entry; evicted: how many entries add then removed
NoCall == [op |-> "none", q |-> <<>>, was |-> None, pushed |-> FALSE, evicted |-> 0]

\* no call has been made on the history alone
HistIdle ==
    /\ call = NoCall
    /\ ret = None

\* execute_batch has not been called
ExecIdle ==
    /\ batch = <<>>
    /\ catalog = <<>>
    /\ ex_pc = "idle"
    /\ ex_i = 0
    /\ ex_dates = <<>>
    /\ sent = <<>>
    /\ answers = <<>>
    /\ results = <<>>
    /\ batch_ret = None

\* extract_cell_value has not been called
DecIdle ==
    /\ cell = None
    /\ decoded = None

LibIdle == HistIdle /\ ExecIdle /\ DecIdle

\* the fields of App other than history, as App::new sets them
AppNew ==
    /\ query = DefaultQuery
    /\ cursor_pos = Len(DefaultQuery)
    /\ result = QueryResultEmpty
    /\ is_loading = FALSE
    /\ error = None
    /\ message = Some(ConnectedMessage)
    /\ active_panel = "QueryEditor"
    /\ results_tab = "Data"
    /\ show_help = FALSE
    /\ results_scroll = 0
    /\ results_selected = 0
    /\ results_col_selected = 0
    /\ spinner_frame = 0
    /\ pending_query = None
    /\ pending_query_text = None
    /\ should_quit = FALSE
    /\ op = [o \in OpIds |-> IdleOp]
    /\ chan = [t \in TaskIds |-> NoChan]
    /\ lock = {}
    /\ wire = {}
    /\ spawned = 0
    /\ consumed = [t \in TaskIds |-> 0]
    /\ last = "new"

Init ==
    /\ pc = "version"
    /\ AppNew
    /\ history \in {QueryHistoryNew(HistoryMax, e) : e \in LoadedEntries}
    /\ LibIdle

\* ------------------------------------------------ the connection mutex
\* a lock that lets a second holder in
LockNotChecked == TRUE

\* tokio::sync::Mutex::lock().await completes only while nobody holds the lock
LockFree == lock = {}

\* one user starts holding the connection
Acquire(o) ==
    /\ LockFree
    /\ lock' = lock \cup {o}
    /\ op' = [op EXCEPT ![o] = [st |-> "held", trips |-> 0, out |-> NoOutcome]]

\* a request that also goes out after execute has returned, under the same guard
SendRequestAnyTime(o) ==
    /\ op[o].st \in {"held", "ready"}
    /\ op' = [op EXCEPT ![o].st = "inflight"]
    /\ wire' = wire \cup {o}

\* client.simple_query: the request goes out on the wire
SendRequest(o) ==
    /\ op[o].st = "held"
    /\ op' = [op EXCEPT ![o].st = "inflight"]
    /\ wire' = wire \cup {o}

\* the answer to a request that is not the last of its holder arrives
LookupAnswered(o) ==
    /\ op[o].st = "inflight"
    /\ op' = [op EXCEPT ![o].st = "held", ![o].trips = @ + 1]
    /\ wire' = wire \ {o}

\* QueryExecutor::execute returns: the answer to the query itself has arrived
ExecuteReturns(o, outcome) ==
    /\ op[o].st = "inflight"
    /\ op' = [op EXCEPT ![o].st = "ready", ![o].trips = @ + 1, ![o].out = outcome]
    /\ wire' = wire \ {o}

\* the guard is dropped: the holder lets go of the connection
Release(o, st) ==
    /\ lock' = lock \ {o}
    /\ op' = [op EXCEPT ![o] = [st |-> st, trips |-> 0, out |-> NoOutcome]]

\* ------------------------------------------------------ App::new
StartupPhases == {"version", "schema", "default"}

\* round trips the startup phase makes under one lock; execute makes up to
\* MaxLookups catalog lookups before the query itself
StartupTrips(phase) ==
    CASE phase = "version" -> 1
      [] phase = "schema" -> SchemaTrips
      [] OTHER -> MaxLookups + 1

\* get_server_version, load_schema and execute_default_query each lock the client
StartupLock ==
    /\ UNCHANGED libVars
    /\ pc \in StartupPhases
    /\ op[Fg].st = "none"
    /\ IF pc = "default" /\ query = <<>>
       THEN /\ pc' = "check"
            /\ UNCHANGED <<op, lock>>
       ELSE /\ Acquire(Fg)
            /\ UNCHANGED pc
    /\ last' = "startup"
    /\ UNCHANGED <<uiVars, chan, wire, spawned, consumed>>

StartupRequest ==
    /\ UNCHANGED libVars
    /\ pc \in StartupPhases
    /\ op[Fg].trips < StartupTrips(pc)
    /\ SendRequest(Fg)
    /\ last' = "startup"
    /\ UNCHANGED <<pc, uiVars, chan, lock, spawned, consumed>>

\* an answer after which the same phase goes on under the same lock
StartupAnswered ==
    /\ UNCHANGED libVars
    /\ pc \in StartupPhases
    /\ pc = "default" => op[Fg].trips < MaxLookups
    /\ LookupAnswered(Fg)
    /\ last' = "startup"
    /\ UNCHANGED <<pc, uiVars, chan, lock, spawned, consumed>>

\* get_server_version and load_schema return and drop the guard
StartupRelease ==
    /\ UNCHANGED libVars
    /\ pc \in {"version", "schema"}
    /\ op[Fg].st = "held"
    /\ op[Fg].trips = StartupTrips(pc)
    /\ Release(Fg, "none")
    /\ pc' = IF pc = "version" THEN "schema" ELSE "default"
    /\ last' = "startup"
    /\ UNCHANGED <<uiVars, chan, wire, spawned, consumed>>

StartupExecuteReturns ==
    /\ UNCHANGED libVars
    /\ pc = "default"
    /\ \E outcome \in ExecuteOutcomes : ExecuteReturns(Fg, outcome)
    /\ last' = "startup"
    /\ UNCHANGED <<pc, uiVars, chan, lock, spawned, consumed>>

\* execute_default_query handles the outcome, then its guard is dropped
DefaultQueryDone ==
    /\ UNCHANGED libVars
    /\ pc = "default"
    /\ op[Fg].st = "ready"
    /\ LET out == op[Fg].out IN
       IF out.ok
       THEN /\ \E saved \in BOOLEAN :
                   history' = HistoryAddThenSave(history, history.max_entries, query,
                                                 out.res.time, out.res.rows, saved)
            /\ message' = Some(RowsMessage(out.res))
            /\ result' = out.res
            /\ results_selected' = 0
            /\ results_col_selected' = 0
            /\ UNCHANGED error
       ELSE /\ error' = Some(ErrorToString(out.err))
            /\ UNCHANGED <<history, message, result, results_selected,
                           results_col_selected>>
    /\ Release(Fg, "none")
    /\ pc' = "check"
    /\ last' = "startup"
    /\ UNCHANGED <<query, cursor_pos, is_loading, active_panel, results_tab, show_help,
                   results_scroll, spinner_frame, pending_query, pending_query_text,
                   should_quit, chan, wire, spawned, consumed>>

\* ------------------------------------------- the background task
\* the task exists: spawned and not yet finished
TaskAlive(t) == op[t].st \in {"wait", "held", "inflight", "ready", "sent"}

\* client_arc.lock().await
TaskLock(t) ==
    /\ op[t].st = "wait"
    /\ Acquire(t)
    /\ UNCHANGED <<pc, uiVars, last, libVars, chan, wire, spawned, consumed>>

TaskRequest(t) ==
    /\ op[t].trips <= MaxLookups
    /\ SendRequest(t)
    /\ UNCHANGED <<pc, uiVars, last, libVars, chan, lock, spawned, consumed>>

\* a catalog lookup of the rewriter is answered; execute goes on
TaskLookupAnswered(t) ==
    /\ op[t].trips < MaxLookups
    /\ LookupAnswered(t)
    /\ UNCHANGED <<pc, uiVars, last, libVars, chan, lock, spawned, consumed>>

TaskExecuteReturns(t) ==
    /\ \E outcome \in ExecuteOutcomes : ExecuteReturns(t, outcome)
    /\ UNCHANGED <<pc, uiVars, last, libVars, chan, lock, spawned, consumed>>

\* what the task puts on the channel: a result as it is, an error as its chain
SentValue(out) ==
    IF out.ok THEN out ELSE [out EXCEPT !.err = ErrorMsg(out.err)]

\* a task that writes the result into the application state itself
TaskSendPublishes(t) ==
    /\ op[t].st = "ready"
    /\ chan' = IF chan[t].st = "empty"
               THEN [chan EXCEPT ![t] = [st |-> "full", val |-> SentValue(op[t].out)]]
               ELSE chan
    /\ op' = [op EXCEPT ![t].st = "sent", ![t].out = NoOutcome]
    /\ result' = op[t].out.res
    /\ UNCHANGED <<pc, query, cursor_pos, is_loading, error, message, active_panel,
                   results_tab, show_help, results_scroll, results_selected,
                   results_col_selected, history, spinner_frame, pending_query,
                   pending_query_text, should_quit, last, lock, wire, spawned,
                   consumed, libVars>>

\* a task that runs the query again when execute has returned an error
TaskSendRetriesOnError(t) ==
    /\ op[t].st = "ready"
    /\ IF ~op[t].out.ok
       THEN /\ op' = [op EXCEPT ![t] = [st |-> "held", trips |-> 0, out |-> NoOutcome]]
            /\ UNCHANGED chan
       ELSE /\ chan' = IF chan[t].st = "empty"
                       THEN [chan EXCEPT ![t] = [st |-> "full", val |-> SentValue(op[t].out)]]
                       ELSE chan
            /\ op' = [op EXCEPT ![t].st = "sent", ![t].out = NoOutcome]
    /\ UNCHANGED <<pc, uiVars, last, libVars, lock, wire, spawned, consumed>>

\* let _ = tx.send(..): the value is stored while the receiver is alive
TaskSend(t) ==
    /\ op[t].st = "ready"
    /\ chan' = IF chan[t].st = "empty"
               THEN [chan EXCEPT ![t] = [st |-> "full", val |-> SentValue(op[t].out)]]
               ELSE chan
    /\ op' = [op EXCEPT ![t].st = "sent", ![t].out = NoOutcome]
    /\ UNCHANGED <<pc, uiVars, last, libVars, lock, wire, spawned, consumed>>

\* a task that ends without giving the connection back
TaskFinishKeepsGuard(t) ==
    /\ op[t].st = "sent"
    /\ op' = [op EXCEPT ![t].st = "done"]
    /\ UNCHANGED <<pc, uiVars, last, libVars, chan, lock, wire, spawned, consumed>>

\* the async block ends: the guard is dropped and the task is finished
TaskFinish(t) ==
    /\ op[t].st = "sent"
    /\ Release(t, "done")
    /\ UNCHANGED <<pc, uiVars, last, libVars, chan, wire, spawned, consumed>>

\* the task is dropped before it sends (a panic inside execute, the runtime
\* shutting down): its guard and its sender are dropped with it
TaskDropped(t) ==
    /\ op[t].st \in {"wait", "held", "inflight", "ready"}
    /\ Release(t, "done")
    /\ wire' = wire \ {t}
    /\ chan' = IF chan[t].st = "empty"
               THEN [chan EXCEPT ![t] = [st |-> "closed", val |-> NoOutcome]]
               ELSE chan
    /\ UNCHANGED <<pc, uiVars, last, libVars, spawned, consumed>>

TaskStep(t) ==
    \/ TaskLock(t)
    \/ TaskRequest(t)
    \/ TaskLookupAnswered(t)
    \/ TaskExecuteReturns(t)
    \/ TaskSend(t)
    \/ TaskFinish(t)
    \/ TaskDropped(t)

\* the steps the task takes by itself once the runtime polls it
TaskRuns(t) ==
    \/ TaskLock(t)
    \/ TaskRequest(t)
    \/ TaskLookupAnswered(t)
    \/ TaskExecuteReturns(t)
    \/ TaskSend(t)
    \/ TaskFinish(t)

\* ------------------------------------------------ App::start_query
\* the early return without the test of is_loading
StartQueryRejectsBlankOnly == Trim(query) = <<>>

\* the early return of start_query
StartQueryRejects == Trim(query) = <<>> \/ is_loading

\* the task and the channel start_query creates: the task's id names its channel
Spawn(t) ==
    /\ spawned' = t
    /\ chan' = [chan EXCEPT ![t] = [st |-> "empty", val |-> NoOutcome]]
    /\ op' = [op EXCEPT ![t] = [st |-> "wait", trips |-> 0, out |-> NoOutcome]]

\* start_query that leaves the earlier error and message in place
StartQueryKeepsMessages(msg) ==
    IF StartQueryRejects
    THEN /\ message' = msg
         /\ last' = "start_rejected"
         /\ UNCHANGED <<is_loading, error, spinner_frame, pending_query,
                        pending_query_text, op, chan, spawned>>
    ELSE /\ is_loading' = TRUE
         /\ message' = msg
         /\ spinner_frame' = 0
         /\ pending_query' = Some(spawned + 1)
         /\ pending_query_text' = Some(query)
         /\ Spawn(spawned + 1)
         /\ last' = "start_accepted"
         /\ UNCHANGED error

\* start_query that keeps the receiver and not the submitted text
StartQueryForgetsText(msg) ==
    IF StartQueryRejects
    THEN /\ message' = msg
         /\ last' = "start_rejected"
         /\ UNCHANGED <<is_loading, error, spinner_frame, pending_query,
                        pending_query_text, op, chan, spawned>>
    ELSE /\ is_loading' = TRUE
         /\ error' = None
         /\ message' = None
         /\ spinner_frame' = 0
         /\ pending_query' = Some(spawned + 1)
         /\ UNCHANGED pending_query_text
         /\ Spawn(spawned + 1)
         /\ last' = "start_accepted"

\* start_query called with `msg` as the message on entry
StartQuery(msg) ==
    IF StartQueryRejects
    THEN /\ message' = msg
         /\ last' = "start_rejected"
         /\ UNCHANGED <<is_loading, error, spinner_frame, pending_query,
                        pending_query_text, op, chan, spawned>>
    ELSE /\ is_loading' = TRUE
         /\ error' = None
         /\ message' = None
         /\ spinner_frame' = 0
         /\ pending_query' = Some(spawned + 1)
         /\ pending_query_text' = Some(query)
         /\ Spawn(spawned + 1)
         /\ last' = "start_accepted"

\* ------------------------------------- App::check_query_completion
\* try_recv whose Empty is taken for Closed
TryRecvEmptyIsClosed(ch) ==
    CASE ch.st = "full" -> [kind |-> "value", val |-> ch.val]
      [] OTHER -> [kind |-> "closed", val |-> NoOutcome]

\* try_recv whose Closed is taken for Empty
TryRecvClosedIsEmpty(ch) ==
    CASE ch.st = "full" -> [kind |-> "value", val |-> ch.val]
      [] OTHER -> [kind |-> "empty", val |-> NoOutcome]

\* oneshot::Receiver::try_recv
TryRecv(ch) ==
    CASE ch.st = "full" -> [kind |-> "value", val |-> ch.val]
      [] ch.st = "empty" -> [kind |-> "empty", val |-> NoOutcome]
      [] OTHER -> [kind |-> "closed", val |-> NoOutcome]

\* the slot emptied with the loading flag left set
ClearPendingKeepsLoading ==
    /\ UNCHANGED is_loading
    /\ pending_query' = None
    /\ pending_query_text' = None

\* the loading flag cleared with the receiver left in the slot
ClearPendingKeepsReceiver ==
    /\ is_loading' = FALSE
    /\ UNCHANGED pending_query
    /\ pending_query_text' = None

\* the slot is emptied: the receiver is dropped with it
ClearPending ==
    /\ is_loading' = FALSE
    /\ pending_query' = None
    /\ pending_query_text' = None

\* the arms of `match rx.try_recv()` for the receiver of channel c
MatchTryRecv(c, r) ==
            CASE r.kind = "value" /\ r.val.ok ->
                   /\ \E saved \in BOOLEAN :
                         /\ history' =
                              IF IsSome(pending_query_text)
                              THEN HistoryAddThenSave(history, history.max_entries,
                                                      Unwrap(pending_query_text),
                                                      r.val.res.time, r.val.res.rows,
                                                      saved)
                              ELSE history
                         /\ last' = IF \/ saved
                                       \/ pending_query_text = None
                                       \/ SameAsLast(history, Unwrap(pending_query_text))
                                    THEN "check_ok"
                                    ELSE "check_ok_unsaved"
                   /\ message' = Some(RowsMessage(r.val.res))
                   /\ result' = r.val.res
                   /\ results_scroll' = 0
                   /\ results_selected' = 0
                   /\ active_panel' = "Results"
                   /\ ClearPending
                   /\ chan' = [chan EXCEPT ![c] = [st |-> "taken", val |-> NoOutcome]]
                   /\ consumed' = [consumed EXCEPT ![c] = @ + 1]
                   /\ UNCHANGED <<query, cursor_pos, error, results_tab, show_help,
                                  results_col_selected, spinner_frame, should_quit>>
              [] r.kind = "value" /\ ~r.val.ok ->
                   /\ error' = Some(r.val.err)
                   /\ ClearPending
                   /\ chan' = [chan EXCEPT ![c] = [st |-> "taken", val |-> NoOutcome]]
                   /\ consumed' = [consumed EXCEPT ![c] = @ + 1]
                   /\ last' = "check_err"
                   /\ UNCHANGED <<query, cursor_pos, result, message, active_panel,
                                  results_tab, show_help, results_scroll,
                                  results_selected, results_col_selected, history,
                                  spinner_frame, should_quit>>
              [] r.kind = "empty" ->
                   /\ last' = "check_waiting"
                   /\ UNCHANGED <<uiVars, chan, consumed>>
              [] OTHER ->
                   /\ error' = Some(InterruptedMsg)
                   /\ ClearPending
                   /\ consumed' = [consumed EXCEPT ![c] = @ + 1]
                   /\ last' = "check_closed"
                   /\ UNCHANGED <<query, cursor_pos, result, message, active_panel,
                                  results_tab, show_help, results_scroll,
                                  results_selected, results_col_selected, history,
                                  spinner_frame, should_quit, chan>>

\* check_query_completion that awaits the receiver instead of polling it
CheckQueryCompletionBlocking ==
    IF pending_query = None
    THEN /\ last' = "check_idle"
         /\ UNCHANGED <<uiVars, chan, consumed>>
    ELSE /\ chan[Unwrap(pending_query)].st # "empty"
         /\ MatchTryRecv(Unwrap(pending_query), TryRecv(chan[Unwrap(pending_query)]))

CheckQueryCompletion ==
    IF pending_query = None
    THEN /\ last' = "check_idle"
         /\ UNCHANGED <<uiVars, chan, consumed>>
    ELSE MatchTryRecv(Unwrap(pending_query), TryRecv(chan[Unwrap(pending_query)]))

\* --------------------------------------- the editor's text, byte by byte
\* The editor's text is a String and cursor_pos a byte offset into it.  A text
\* is still the sequence of its characters; a character outside ASCII takes two
\* bytes of the String.
Wide == {"é", "É"}
Width(c) == IF c \in Wide THEN 2 ELSE 1

\* String::len
RECURSIVE ByteLen(_)
ByteLen(s) == IF s = <<>> THEN 0 ELSE Width(Head(s)) + ByteLen(Tail(s))

\* the byte offset at which the character after the first k begins
OffsetOf(s, k) == ByteLen(SubSeq(s, 1, k))

\* str::is_char_boundary, and the characters that lie before a boundary
IsCharBoundary(s, idx) == \E k \in 0..Len(s) : OffsetOf(s, k) = idx
CharsBefore(s, idx) == CHOOSE k \in 0..Len(s) : OffsetOf(s, k) = idx

\* String::insert, String::insert_str and String::remove at a boundary; off a
\* boundary they panic, and so does remove at the end of the text
StringInsertStr(s, idx, t) ==
    SubSeq(s, 1, CharsBefore(s, idx)) \o t \o SubSeq(s, CharsBefore(s, idx) + 1, Len(s))
StringInsert(s, idx, c) == StringInsertStr(s, idx, <<c>>)
StringRemove(s, idx) ==
    SubSeq(s, 1, CharsBefore(s, idx)) \o SubSeq(s, CharsBefore(s, idx) + 2, Len(s))

\* chars().take(n).collect() and chars().skip(n).collect(): n counts characters
CharsTake(s, n) == SubSeq(s, 1, Min(n, Len(s)))
CharsSkip(s, n) == SubSeq(s, Min(n, Len(s)) + 1, Len(s))

\* str::find(c) and str::rfind(c): None or a byte offset
Positions(s, c) == {i \in 1..Len(s) : s[i] = c}
ByteFind(s, c) ==
    IF Positions(s, c) = {} THEN None
    ELSE Some(OffsetOf(s, (CHOOSE i \in Positions(s, c) :
                              \A j \in Positions(s, c) : i <= j) - 1))
ByteRFind(s, c) ==
    IF Positions(s, c) = {} THEN None
    ELSE Some(OffsetOf(s, (CHOOSE i \in Positions(s, c) :
                              \A j \in Positions(s, c) : i >= j) - 1))

\* usize arithmetic: a difference below zero stands for the value it wraps to
\* (2^64 less its size) in a build without overflow checks; with them the
\* subtraction panics.  min compares the wrapped values.
Wrapped(n) == n < 0
UMin(a, b) ==
    IF Wrapped(a) = Wrapped(b) THEN Min(a, b)
    ELSE IF Wrapped(a) THEN b ELSE a

\* ------------------------------------------------ format_sql_query
\* keywords_newline_before, in the order the formatter tries them
KeywordsNewlineBefore ==
    <<
      <<"S", "E", "L", "E", "C", "T">>,
      <<"F", "R", "O", "M">>,
      <<"W", "H", "E", "R", "E">>,
      <<"A", "N", "D">>,
      <<"O", "R">>,
      <<"O", "R", "D", "E", "R", " ", "B", "Y">>,
      <<"G", "R", "O", "U", "P", " ", "B", "Y">>,
      <<"H", "A", "V", "I", "N", "G">>,
      <<"J", "O", "I", "N">>,
      <<"I", "N", "N", "E", "R", " ", "J", "O", "I", "N">>,
      <<"L", "E", "F", "T", " ", "J", "O", "I", "N">>,
      <<"R", "I", "G", "H", "T", " ", "J", "O", "I", "N">>,
      <<"O", "U", "T", "E", "R", " ", "J", "O", "I", "N">>,
      <<"C", "R", "O", "S", "S", " ", "J", "O", "I", "N">>,
      <<"O", "N">>,
      <<"U", "N", "I", "O", "N">>,
      <<"U", "N", "I", "O", "N", " ", "A", "L", "L">>,
      <<"I", "N", "S", "E", "R", "T", " ", "I", "N", "T", "O">>,
      <<"V", "A", "L", "U", "E", "S">>,
      <<"U", "P", "D", "A", "T", "E">>,
      <<"S", "E", "T">>,
      <<"D", "E", "L", "E", "T", "E", " ", "F", "R", "O", "M">>,
      <<"C", "R", "E", "A", "T", "E", " ", "T", "A", "B", "L", "E">>,
      <<"A", "L", "T", "E", "R", " ", "T", "A", "B", "L", "E">>,
      <<"D", "R", "O", "P", " ", "T", "A", "B", "L", "E">>
    >>

\* "SELECT" and "FROM": the keywords followed by a line break
KeywordsNewlineAfter == {KeywordsNewlineBefore[1], KeywordsNewlineBefore[2]}
\* "AND", "OR" and "ON": the keywords indented one level deeper
KeywordsDeeper ==
    {KeywordsNewlineBefore[4], KeywordsNewlineBefore[5], KeywordsNewlineBefore[15]}

\* char::is_alphanumeric
IsAlphanumeric(c) ==
    \/ \E i \in 1..Len(Lower) : c \in {Lower[i], Upper[i]}
    \/ c \in Digits

\* str::split_whitespace().collect()
RECURSIVE SplitWhitespace(_)
SplitWhitespace(s) ==
    LET t == TrimStart(s) IN
    IF t = <<>> THEN <<>>
    ELSE <<TakeUntil(t, Whitespace)>>
         \o SplitWhitespace(SubSeq(t, Len(TakeUntil(t, Whitespace)) + 1, Len(t)))

\* "    ".repeat(n)
RECURSIVE Indent(_)
Indent(n) == IF n = 0 THEN <<>> ELSE <<" ", " ", " ", " ">> \o Indent(n - 1)

\* the index after the whitespace that starts at character i
RECURSIVE SkipWhitespace(_, _)
SkipWhitespace(chars, i) ==
    IF i < Len(chars) /\ chars[i + 1] \in Whitespace
    THEN SkipWhitespace(chars, i + 1)
    ELSE i

FormatPanic == [panic |-> TRUE, text |-> <<>>]

\* the keyword test at index i: sql_upper[i..] is a byte slice and panics off a
\* character boundary; chars().nth(end).unwrap() panics past the last character
SliceOffBoundary(upper, i) == ~IsCharBoundary(upper, i)
AfterSlice(upper, i) == SubSeq(upper, CharsBefore(upper, i) + 1, Len(upper))
KeywordFits(upper, i, kw) == StartsWith(AfterSlice(upper, i), kw)
NthMissing(upper, i, kw) ==
    /\ KeywordFits(upper, i, kw)
    /\ i + Len(kw) < ByteLen(upper)
    /\ i + Len(kw) >= Len(upper)
KeywordMatches(upper, i, kw) ==
    /\ KeywordFits(upper, i, kw)
    /\ \/ i + Len(kw) >= ByteLen(upper)
       \/ /\ i + Len(kw) < Len(upper)
          /\ ~IsAlphanumeric(upper[i + Len(kw) + 1])

\* the for loop over the keywords from the n-th on: the first that matches, 0
\* when none does, NthPanics when the test of one panics before that
NthPanics == 0 - 1
RECURSIVE MatchedKeyword(_, _, _)
MatchedKeyword(upper, i, n) ==
    IF n > Len(KeywordsNewlineBefore) THEN 0
    ELSE IF NthMissing(upper, i, KeywordsNewlineBefore[n]) THEN NthPanics
    ELSE IF KeywordMatches(upper, i, KeywordsNewlineBefore[n]) THEN n
    ELSE MatchedKeyword(upper, i, n + 1)

\* the while loop of format_sql_query from index i on
RECURSIVE FormatFrom(_, _, _, _, _)
FormatFrom(chars, upper, i, built, indent_level) ==
    IF i >= Len(chars) THEN [panic |-> FALSE, text |-> built]
    ELSE IF SliceOffBoundary(upper, i) THEN FormatPanic
    ELSE IF MatchedKeyword(upper, i, 1) = NthPanics THEN FormatPanic
    ELSE IF MatchedKeyword(upper, i, 1) # 0
    THEN LET keyword == KeywordsNewlineBefore[MatchedKeyword(upper, i, 1)]
             broken == IF built # <<>> /\ built[Len(built)] # "\n"
                       THEN built \o <<"\n">>
                       ELSE built
             indented == broken \o Indent(IF keyword \in KeywordsDeeper
                                          THEN indent_level + 1
                                          ELSE indent_level)
             after == IF keyword \in KeywordsNewlineAfter
                      THEN <<"\n">> \o Indent(indent_level + 1)
                      ELSE <<" ">>
         IN IF i + Len(keyword) > Len(chars) THEN FormatPanic
            ELSE FormatFrom(chars, upper,
                            SkipWhitespace(chars, i + Len(keyword)),
                            indented
                              \o ToUpper(SubSeq(chars, i + 1, i + Len(keyword)))
                              \o after,
                            indent_level)
    ELSE CASE chars[i + 1] = "(" ->
                FormatFrom(chars, upper, i + 1, built \o <<"(">>, indent_level + 1)
           [] chars[i + 1] = ")" ->
                FormatFrom(chars, upper, i + 1, built \o <<")">>,
                           SatSub(indent_level, 1))
           [] chars[i + 1] = "," ->
                FormatFrom(chars, upper, SkipWhitespace(chars, i + 1),
                           built \o <<",", "\n">> \o Indent(indent_level + 1),
                           indent_level)
           [] OTHER ->
                FormatFrom(chars, upper, i + 1, built \o <<chars[i + 1]>>,
                           indent_level)

\* lines().map(trim_end).collect().join("\n").trim()
RECURSIVE TrimEndEach(_)
TrimEndEach(lines) ==
    IF lines = <<>> THEN <<>> ELSE <<TrimEnd(Head(lines))>> \o TrimEndEach(Tail(lines))
CleanUp(text) == Trim(Join(TrimEndEach(Split(text, "\n")), <<"\n">>))

FormatSqlQuery(sql) ==
    LET norm == Join(SplitWhitespace(sql), <<" ">>)
        out == FormatFrom(norm, ToUpper(norm), 0, <<>>, 0)
    IN IF out.panic THEN out ELSE [panic |-> FALSE, text |-> CleanUp(out.text)]

\* ------------------------------------------- handle_query_editor
\* what an editor operation leaves: the text, the cursor, and whether it
\* panicked on the way
Edited(q, c) == [query |-> q, cursor_pos |-> c, panic |-> FALSE]
Panicked(q, c) == [query |-> q, cursor_pos |-> c, panic |-> TRUE]

\* query.insert(cursor_pos, ch); cursor_pos += 1
TypeChar(q, c, ch) ==
    IF IsCharBoundary(q, c) THEN Edited(StringInsert(q, c, ch), c + 1) ELSE Panicked(q, c)

\* Tab: four times insert(cursor_pos, ' ') and cursor_pos += 1
TypeIndent(q, c) ==
    IF IsCharBoundary(q, c)
    THEN Edited(StringInsertStr(q, c, <<" ", " ", " ", " ">>), c + 4)
    ELSE Panicked(q, c)

\* Backspace: cursor_pos -= 1, then query.remove(cursor_pos)
Backspace(q, c) ==
    IF c = 0 THEN Edited(q, c)
    ELSE IF IsCharBoundary(q, c - 1) /\ c - 1 < ByteLen(q)
         THEN Edited(StringRemove(q, c - 1), c - 1)
         ELSE Panicked(q, c - 1)

\* Delete: query.remove(cursor_pos) while the cursor is before the end
Delete(q, c) ==
    IF ~(c < ByteLen(q)) THEN Edited(q, c)
    ELSE IF IsCharBoundary(q, c) THEN Edited(StringRemove(q, c), c) ELSE Panicked(q, c)

\* Right without the limit
CursorRightUnlimited(q, c) == c + 1

\* Left and Right
CursorLeft(q, c) == SatSub(c, 1)
CursorRight(q, c) == Min(c + 1, ByteLen(q))

\* move_cursor_up.  `checked` tells whether the build checks for overflow.
MoveCursorUp(q, c, checked) ==
    LET text_before == CharsTake(q, c)
        last_newline == ByteRFind(text_before, "\n")
    IN IF last_newline = None THEN Edited(q, c)
       ELSE LET col == c - Unwrap(last_newline) - 1
                before_that == CharsTake(text_before, Unwrap(last_newline))
                prev_newline == ByteRFind(before_that, "\n")
            IN IF Wrapped(col) /\ checked THEN Panicked(q, c)
               ELSE IF prev_newline = None
               THEN Edited(q, UMin(col, Unwrap(last_newline)))
               ELSE LET prev_line_len ==
                          Unwrap(last_newline) - Unwrap(prev_newline) - 1
                    IN IF Wrapped(prev_line_len) /\ checked THEN Panicked(q, c)
                       ELSE Edited(q, Unwrap(prev_newline) + 1
                                        + UMin(col, prev_line_len))

\* move_cursor_down
MoveCursorDown(q, c, checked) ==
    LET text_before == CharsTake(q, c)
        text_after == CharsSkip(q, c)
        last_newline == ByteRFind(text_before, "\n")
        col == IF last_newline = None THEN c ELSE c - Unwrap(last_newline) - 1
        next_newline == ByteFind(text_after, "\n")
    IN IF Wrapped(col) /\ checked THEN Panicked(q, c)
       ELSE IF next_newline = None THEN Edited(q, c)
       ELSE LET next_line_start == c + Unwrap(next_newline) + 1
                remaining == CharsSkip(q, next_line_start)
                next_line_len == IF ByteFind(remaining, "\n") = None
                                 THEN ByteLen(remaining)
                                 ELSE Unwrap(ByteFind(remaining, "\n"))
            IN Edited(q, next_line_start + UMin(col, next_line_len))

\* format_sql: the text is replaced by its formatted form, the cursor goes to
\* its end
FormatSql(q, c) ==
    LET formatted == FormatSqlQuery(q)
    IN IF formatted.panic
       THEN Panicked(q, c)
       ELSE Edited(formatted.text, ByteLen(formatted.text))

\* the characters the operator types; Chars are among them, and the digits
\* that choose a tab of the results panel
Typed == Chars \cup {"o", "n", ",", "é", "1", "2", "3"}

\* handle_query_editor for a key other than Enter and F5, which start the query
HandleQueryEditorKey(q, c, k, checked) ==
    CASE k \in Typed -> TypeChar(q, c, k)
      [] k = "ShiftEnter" -> TypeChar(q, c, "\n")
      [] k = "CtrlF" -> FormatSql(q, c)
      [] k = "Tab" -> TypeIndent(q, c)
      [] k = "Backspace" -> Backspace(q, c)
      [] k = "Delete" -> Delete(q, c)
      [] k = "Left" -> Edited(q, CursorLeft(q, c))
      [] k = "Right" -> Edited(q, CursorRight(q, c))
      [] k = "Up" -> MoveCursorUp(q, c, checked)
      [] k = "Down" -> MoveCursorDown(q, c, checked)
      [] k = "Home" -> Edited(q, 0)
      [] k = "End" -> Edited(q, ByteLen(q))
      [] k = "Esc" -> Edited(<<>>, 0)
      [] OTHER -> Edited(q, c)

\* insert_schema_object for the node the schema panel has selected, if any:
\* "[name]" goes in at the cursor when the node is a table or a view
Bracketed(name) == <<"[">> \o name \o <<"]">>
InsertSchemaObject(q, c, node) ==
    IF node = None \/ Unwrap(node).node_type \notin {"Table", "View"}
    THEN Edited(q, c)
    ELSE IF IsCharBoundary(q, c)
         THEN Edited(StringInsertStr(q, c, Bracketed(Unwrap(node).name)),
                     c + ByteLen(Bracketed(Unwrap(node).name)))
         ELSE Panicked(q, c)

\* load_history_entry for the entry the history panel has selected
LoadHistoryEntry(entry) == Edited(entry.query, ByteLen(entry.query))

\* ------------------------------------------------------ key handling
\* The keys the operator presses.  None of them cycles the panels (BackTab,
\* Ctrl+Tab), so the Schema and History panels are not entered.
Keys == Chars \cup {"Enter", "F5", "Esc", "Backspace", "CtrlC", "Down", "Up"}
MouseKinds == {"ScrollUp", "ScrollDown"}

\* length of the list the active results tab shows
ResultsListLen ==
    CASE results_tab = "Data" -> result.rows
      [] results_tab = "Columns" -> result.columns
      [] OTHER -> StatsCount

\* handle_query_editor in the run loop.  The operator of the loop types Chars,
\* every one a single byte, and no line break: no step panics or overflows.
EditorQuery(k) == HandleQueryEditorKey(query, cursor_pos, k, TRUE).query
EditorCursor(k) == HandleQueryEditorKey(query, cursor_pos, k, TRUE).cursor_pos

HandleQueryEditor(k, msg) ==
    IF k \in {"Enter", "F5"}
    THEN /\ StartQuery(msg)
         /\ UNCHANGED <<query, cursor_pos, result, active_panel, results_tab,
                        show_help, results_scroll, results_selected,
                        results_col_selected, history, should_quit>>
    ELSE /\ query' = EditorQuery(k)
         /\ cursor_pos' = EditorCursor(k)
         /\ message' = msg
         /\ last' = "event"
         /\ UNCHANGED <<result, is_loading, error, active_panel, results_tab,
                        show_help, results_scroll, results_selected,
                        results_col_selected, history, spinner_frame, pending_query,
                        pending_query_text, should_quit, op, chan, spawned>>

\* handle_results, for the keys that neither copy nor export
HandleResults(k, msg) ==
    /\ results_tab' = CASE k = "1" -> "Data"
                        [] k = "2" -> "Columns"
                        [] k = "3" -> "Stats"
                        [] OTHER -> results_tab
    /\ results_selected' =
         CASE k \in {"Up", "k"} -> SatSub(results_selected, 1)
           [] k \in {"Down", "j"} -> IF results_selected < SatSub(ResultsListLen, 1)
                                     THEN results_selected + 1
                                     ELSE results_selected
           [] k = "PageUp" -> SatSub(results_selected, PageAmount)
           [] k = "PageDown" -> Min(results_selected + PageAmount,
                                    SatSub(ResultsListLen, 1))
           [] k = "Home" -> 0
           [] k = "End" -> SatSub(ResultsListLen, 1)
           [] OTHER -> results_selected
    /\ results_col_selected' =
         CASE k \in {"Left", "h"} -> SatSub(results_col_selected, 1)
           [] k \in {"Right", "l"} ->
                IF results_col_selected < SatSub(result.columns, 1)
                THEN results_col_selected + 1
                ELSE results_col_selected
           [] k = "Home" -> 0
           [] OTHER -> results_col_selected
    /\ active_panel' = IF k \in {"Enter", "Esc"} THEN "QueryEditor" ELSE active_panel
    /\ message' = msg
    /\ last' = "event"
    /\ UNCHANGED <<query, cursor_pos, result, is_loading, error, show_help,
                   results_scroll, history, spinner_frame, pending_query,
                   pending_query_text, should_quit, op, chan, spawned>>

\* handle_key in which Esc gives up the query that is loading
HandleKeyLoadingEscCancels(k) ==
    /\ should_quit' = IF k = "CtrlC" THEN TRUE ELSE should_quit
    /\ is_loading' = IF k = "Esc" THEN FALSE ELSE is_loading
    /\ pending_query' = IF k = "Esc" THEN None ELSE pending_query
    /\ pending_query_text' = IF k = "Esc" THEN None ELSE pending_query_text
    /\ last' = "key_loading"
    /\ UNCHANGED <<query, cursor_pos, result, error, message,
                   active_panel, results_tab, show_help, results_scroll,
                   results_selected, results_col_selected, history, spinner_frame,
                   op, chan, spawned>>

\* handle_key that lets the editor keys through while a query is loading
HandleKeyLoadingEdits(k) ==
    /\ should_quit' = IF k = "CtrlC" THEN TRUE ELSE should_quit
    /\ query' = EditorQuery(k)
    /\ cursor_pos' = EditorCursor(k)
    /\ last' = "key_loading"
    /\ UNCHANGED <<result, is_loading, error, message,
                   active_panel, results_tab, show_help, results_scroll,
                   results_selected, results_col_selected, history, spinner_frame,
                   pending_query, pending_query_text, op, chan, spawned>>

\* handle_key while a query is loading: only the quit shortcuts act
HandleKeyLoading(k) ==
    /\ should_quit' = IF k = "CtrlC" THEN TRUE ELSE should_quit
    /\ last' = "key_loading"
    /\ UNCHANGED <<query, cursor_pos, result, is_loading, error, message,
                   active_panel, results_tab, show_help, results_scroll,
                   results_selected, results_col_selected, history, spinner_frame,
                   pending_query, pending_query_text, op, chan, spawned>>

HandleKey(k) ==
    IF is_loading
    THEN HandleKeyLoading(k)
    ELSE LET msg == IF k # "Enter" THEN None ELSE message IN
         IF k = "CtrlC" \/ show_help
         THEN /\ should_quit' = IF k = "CtrlC" THEN TRUE ELSE should_quit
              /\ show_help' = IF k # "CtrlC" /\ k = "Esc" THEN FALSE ELSE show_help
              /\ message' = msg
              /\ last' = "event"
              /\ UNCHANGED <<query, cursor_pos, result, is_loading, error,
                             active_panel, results_tab, results_scroll,
                             results_selected, results_col_selected, history,
                             spinner_frame, pending_query, pending_query_text,
                             op, chan, spawned>>
         ELSE CASE active_panel = "QueryEditor" -> HandleQueryEditor(k, msg)
                [] active_panel = "Results" -> HandleResults(k, msg)

\* handle_mouse: scroll_up(3) and scroll_down(3) in the active panel
HandleMouse(m) ==
    /\ results_selected' =
         IF is_loading \/ active_panel # "Results" \/ results_tab = "Stats"
         THEN results_selected
         ELSE IF m = "ScrollUp"
              THEN SatSub(results_selected, ScrollAmount)
              ELSE Min(results_selected + ScrollAmount, SatSub(ResultsListLen, 1))
    /\ last' = "event"
    /\ UNCHANGED <<query, cursor_pos, result, is_loading, error, message,
                   active_panel, results_tab, show_help, results_scroll,
                   results_col_selected, history, spinner_frame, pending_query,
                   pending_query_text, should_quit, op, chan, spawned>>

\* ------------------------------------------------------- App::run
\* the loop breaks once should_quit is set
AfterEvent == pc' = IF should_quit' THEN "exit" ELSE "check"

\* the loop has polled an empty channel MaxWait times since the query started
WaitedLong ==
    /\ pending_query # None
    /\ TryRecv(chan[Unwrap(pending_query)]).kind = "empty"
    /\ spinner_frame >= MaxWait

RunCheck ==
    /\ UNCHANGED libVars
    /\ pc = "check"
    /\ ~WaitedLong
    /\ CheckQueryCompletion
    /\ pc' = "spin"
    /\ UNCHANGED <<op, lock, wire, spawned>>

RunSpinner ==
    /\ UNCHANGED libVars
    /\ pc = "spin"
    /\ spinner_frame' = IF is_loading
                        THEN (spinner_frame + 1) % SpinnerFrames
                        ELSE spinner_frame
    /\ pc' = "poll"
    /\ last' = "spin"
    /\ UNCHANGED <<query, cursor_pos, result, is_loading, error, message,
                   active_panel, results_tab, show_help, results_scroll,
                   results_selected, results_col_selected, history, pending_query,
                   pending_query_text, should_quit, bgVars, consumed>>

RunKey(k) ==
    /\ UNCHANGED libVars
    /\ pc = "poll"
    /\ (k \in Typed /\ active_panel = "QueryEditor") => Len(query) < MaxLen
    /\ StartQueryRejects \/ spawned < MaxTasks
    /\ HandleKey(k)
    /\ AfterEvent
    /\ UNCHANGED <<lock, wire, consumed>>

RunMouse(m) ==
    /\ UNCHANGED libVars
    /\ pc = "poll"
    /\ HandleMouse(m)
    /\ AfterEvent
    /\ UNCHANGED <<lock, wire, consumed>>

\* event::poll times out, or the event is neither a key nor a mouse event
RunNoEvent ==
    /\ UNCHANGED libVars
    /\ pc = "poll"
    /\ last' = "event"
    /\ UNCHANGED <<uiVars, bgVars, consumed>>
    /\ AfterEvent

\* start_query is public: a caller other than handle_query_editor
CallStartQuery ==
    /\ UNCHANGED libVars
    /\ pc = "poll"
    /\ StartQueryRejects \/ spawned < MaxTasks
    /\ StartQuery(message)
    /\ pc' = "check"
    /\ UNCHANGED <<query, cursor_pos, result, active_panel, results_tab, show_help,
                   results_scroll, results_selected, results_col_selected, history,
                   should_quit, lock, wire, consumed>>

Next ==
    \/ StartupLock
    \/ StartupRequest
    \/ StartupAnswered
    \/ StartupRelease
    \/ StartupExecuteReturns
    \/ DefaultQueryDone
    \/ RunCheck
    \/ RunSpinner
    \/ \E k \in Keys : RunKey(k)
    \/ \E m \in MouseKinds : RunMouse(m)
    \/ RunNoEvent
    \/ CallStartQuery
    \/ \E t \in TaskIds : TaskStep(t)

Spec == Init /\ [][Next]_vars

\* ------------------------------------------- the loop with the results keys
\* The keys of the results panel that move the selections and choose the tab,
\* and Enter, which leaves the panel and starts the query from the editor.
PanelKeys == {"Enter", "Left", "Right", "1", "2", "3", "Home", "End", "PageUp",
              "PageDown"}

NextPanel ==
    \/ StartupLock
    \/ StartupRequest
    \/ StartupAnswered
    \/ StartupRelease
    \/ StartupExecuteReturns
    \/ DefaultQueryDone
    \/ RunCheck
    \/ RunSpinner
    \/ \E k \in PanelKeys : RunKey(k)
    \/ \E m \in MouseKinds : RunMouse(m)
    \/ \E t \in TaskIds : TaskStep(t)

SpecPanel == Init /\ [][NextPanel]_vars

\* one pass of the loop of App::run goes on to the next: check_query_completion,
\* the spinner, the draw, event::poll with its timeout, the event if there is one
LoopStep ==
    \/ RunCheck
    \/ RunSpinner
    \/ \E k \in Keys : RunKey(k)
    \/ \E m \in MouseKinds : RunMouse(m)
    \/ RunNoEvent
    \/ CallStartQuery

\* the loop keeps turning, and the runtime keeps polling every spawned task:
\* a task that can go on does, and the driver call it awaits returns. Nothing
\* obliges the runtime to drop a task.
SpecLive ==
    /\ Init
    /\ [][Next]_vars
    /\ WF_vars(LoopStep)
    /\ \A t \in TaskIds : WF_vars(TaskRuns(t))

\* ------------------------------------------- extract_cell_value on its own
\* what a conversion of the driver gives for a cell: a value, SQL NULL, or a
\* conversion error (the data is not of a kind the requested type is made from)
Outcomes == {"value", "null", "mismatch"}

\* the arms of the match: the type asked of the driver, the CellValue variant
\* built from it, and the format of the temporal arms
Arm(rust, tag, fmt) == [rust |-> rust, tag |-> tag, fmt |-> fmt]
Dispatch ==
    [Bit |-> Arm("bool", "Bool", ""),
     Int1 |-> Arm("u8", "Int", ""),
     Int2 |-> Arm("i16", "Int", ""),
     Int4 |-> Arm("i32", "Int", ""),
     Int8 |-> Arm("i64", "Int", ""),
     Float4 |-> Arm("f32", "Float", ""),
     Float8 |-> Arm("f64", "Float", ""),
     Decimaln |-> Arm("Numeric", "String", ""),
     Numericn |-> Arm("Numeric", "String", ""),
     Money |-> Arm("f64", "Float", ""),
     Money4 |-> Arm("f64", "Float", ""),
     Datetime |-> Arm("NaiveDateTime", "DateTime", "%Y-%m-%d %H:%M:%S"),
     Datetime2 |-> Arm("NaiveDateTime", "DateTime", "%Y-%m-%d %H:%M:%S"),
     Daten |-> Arm("NaiveDateTime", "DateTime", "%Y-%m-%d"),
     Timen |-> Arm("NaiveDateTime", "DateTime", "%H:%M:%S"),
     BigVarChar |-> Arm("&str", "String", ""),
     BigChar |-> Arm("&str", "String", ""),
     NVarchar |-> Arm("&str", "String", ""),
     NChar |-> Arm("&str", "String", ""),
     Text |-> Arm("&str", "String", ""),
     NText |-> Arm("&str", "String", ""),
     Xml |-> Arm("&str", "String", ""),
     Guid |-> Arm("Uuid", "String", ""),
     BigVarBin |-> Arm("&[u8]", "Binary", ""),
     BigBinary |-> Arm("&[u8]", "Binary", ""),
     Image |-> Arm("&[u8]", "Binary", "")]

\* wire types the match has no arm for
OtherTypes == {"Intn", "Datetimen", "SSVariant"}

\* the probes of the fallback arm, in the order of the code
Probes ==
    <<Arm("&str", "String", ""),
      Arm("NaiveDateTime", "DateTime", "%Y-%m-%d %H:%M:%S"),
      Arm("i64", "Int", ""),
      Arm("f64", "Float", ""),
      Arm("Numeric", "String", "")>>

\* a cell: its column's wire type and what each conversion asked of it gives
Cell(type, probe) == [type |-> type, probe |-> probe]
Cells ==
    {Cell("Null", <<>>)}
       \cup UNION {{Cell(t, p) : p \in [{Dispatch[t].rust} -> Outcomes]} :
                      t \in DOMAIN Dispatch}
       \cup {Cell(t, p) : t \in OtherTypes,
                          p \in [{Probes[k].rust : k \in 1..Len(Probes)} -> Outcomes]}

\* the CellValue variants
NullValue == [tag |-> "Null", from |-> "", fmt |-> ""]
Value(arm) == [tag |-> arm.tag, from |-> arm.rust, fmt |-> arm.fmt]
TypeTagText(type) == [tag |-> "String", from |-> "<" \o type \o ">", fmt |-> ""]
Panic == [tag |-> "panic", from |-> "", fmt |-> ""]

\* row.get::<R, _>(index).map(..).unwrap_or(CellValue::Null): Row::get is
\* try_get(..).unwrap(), so NULL is None and a conversion error panics
GetOrNull(c, arm) ==
    CASE c.probe[arm.rust] = "value" -> Value(arm)
      [] c.probe[arm.rust] = "null" -> NullValue
      [] c.probe[arm.rust] = "mismatch" -> Panic

\* the fallback arm with its probes taken in another order
RECURSIVE FallbackInOrder(_, _, _)
FallbackInOrder(c, k, order) ==
    IF k > Len(order)
    THEN [tag |-> "String", from |-> "<" \o c.type \o ">", fmt |-> ""]
    ELSE IF c.probe[Probes[order[k]].rust] = "value"
         THEN [tag |-> Probes[order[k]].tag, from |-> Probes[order[k]].rust,
               fmt |-> Probes[order[k]].fmt]
         ELSE FallbackInOrder(c, k + 1, order)

\* the fallback arm with the integer probe ahead of the text probe
FallbackIntegerFirst(c, k) == FallbackInOrder(c, k, <<3, 2, 1, 4, 5>>)

\* the fallback arm from probe k on: row.try_get::<R, _>(index).ok().flatten()
\* is Some for a value alone
RECURSIVE Fallback(_, _)
Fallback(c, k) ==
    IF k > Len(Probes)
    THEN TypeTagText(c.type)
    ELSE IF c.probe[Probes[k].rust] = "value"
         THEN Value(Probes[k])
         ELSE Fallback(c, k + 1)

\* extract_cell_value
ExtractCellValue(c) ==
    CASE c.type = "Null" -> NullValue
      [] c.type \in DOMAIN Dispatch -> GetOrNull(c, Dispatch[c.type])
      [] OTHER -> Fallback(c, 1)

InitDecode ==
    /\ pc = "decode"
    /\ AppNew
    /\ history = QueryHistoryNew(HistoryMax, <<>>)
    /\ HistIdle
    /\ ExecIdle
    /\ cell \in {Some(c) : c \in Cells}
    /\ decoded = None

\* process_results calls extract_cell_value for the cell
Extract ==
    /\ pc = "decode"
    /\ decoded = None
    /\ decoded' = Some(ExtractCellValue(Unwrap(cell)))
    /\ UNCHANGED <<appVars, history, histVars, execVars, cell>>

NextDecode == Extract

SpecDecode == InitDecode /\ [][NextDecode]_vars

\* -------------------------------------------- QueryExecutor on its own
MaxBatch == 2      \* most queries handed to execute_batch

\* "SELECT * FROM T WHERE n"
QStarWhere ==
    <<"S", "E", "L", "E", "C", "T", " ", "*", " ", "F", "R", "O", "M", " ", "T", " ",
      "W", "H", "E", "R", "E", " ", "n">>
\* "select top 5 * from T"
QTopStar ==
    <<"s", "e", "l", "e", "c", "t", " ", "t", "o", "p", " ", "5", " ", "*", " ", "f",
      "r", "o", "m", " ", "T">>
\* "SELECT *"
QStarNoFrom ==
    <<"S", "E", "L", "E", "C", "T", " ", "*">>
\* "SELECT n FROM T"
QColumns ==
    <<"S", "E", "L", "E", "C", "T", " ", "n", " ", "F", "R", "O", "M", " ", "T">>

\* "SELECT * FROM T"
QStar ==
    <<"S", "E", "L", "E", "C", "T", " ", "*", " ", "F", "R", "O", "M", " ", "T">>
\* "SELECT * FROM s.T"
QStarQualified ==
    <<"S", "E", "L", "E", "C", "T", " ", "*", " ", "F", "R", "O", "M", " ", "s", ".",
      "T">>
\* "SELECT TOP (5) * FROM T"
QTopParen ==
    <<"S", "E", "L", "E", "C", "T", " ", "T", "O", "P", " ", "(", "5", ")", " ", "*",
      " ", "F", "R", "O", "M", " ", "T">>
\* "SELECT DISTINCT TOP 5 * FROM T"
QDistinctTop ==
    <<"S", "E", "L", "E", "C", "T", " ", "D", "I", "S", "T", "I", "N", "C", "T", " ",
      "T", "O", "P", " ", "5", " ", "*", " ", "F", "R", "O", "M", " ", "T">>
\* "SELECT a,b FROM T"
QTwoColumns ==
    <<"S", "E", "L", "E", "C", "T", " ", "a", ",", "b", " ", "F", "R", "O", "M", " ",
      "T">>
\* "SELECT d FROM T"
QDateColumn ==
    <<"S", "E", "L", "E", "C", "T", " ", "d", " ", "F", "R", "O", "M", " ", "T">>
\* "SELECT *\nFROM T"
QStarOnNewLine ==
    <<"S", "E", "L", "E", "C", "T", " ", "*", "\n", "F", "R", "O", "M", " ", "T">>

\* the queries handed to execute_batch
ExecQueries == {QStarWhere, QTopStar, QStarNoFrom, QColumns}

\* the queries handed to execute one at a time
ShapeQueries ==
    ExecQueries \cup {QStar, QStarQualified, QTopParen, QDistinctTop, QTwoColumns,
                      QDateColumn, QStarOnNewLine}

\* the database: its tables, each with its schema, its name and its columns in
\* ordinal order
Column(name, type) == [name |-> name, type |-> type]
Table(schema, name, cols) == [schema |-> schema, name |-> name, cols |-> cols]
ColN == Column(<<"n">>, "int")
ColD == Column(<<"d">>, "date")
ColM == Column(<<"m">>, "int")
Catalogs ==
    {<<Table(<<"s">>, <<"T">>, <<ColN>>)>>,
     <<Table(<<"s">>, <<"T">>, <<ColN, ColD>>)>>,
     <<Table(<<"s">>, <<"T">>, <<ColD, ColN>>)>>,
     <<Table(<<"s">>, <<"T">>, <<ColN>>), Table(<<"o">>, <<"T">>, <<ColD>>)>>,
     <<Table(<<"s">>, <<"T">>, <<ColN, ColD>>), Table(<<"o">>, <<"T">>, <<ColM>>)>>}

IsDate(c) == c.type = "date"
RECURSIVE Names(_)
Names(cols) == IF cols = <<>> THEN <<>> ELSE <<Head(cols).name>> \o Names(Tail(cols))

\* QueryExecutor::parse_table_name
ParseTableName(table_name) ==
    LET clean == Without(table_name, {"[", "]"})
        parts == Split(clean, ".")
    IN CASE Len(parts) = 1 -> [schema |-> None, table |-> parts[1]]
         [] Len(parts) = 2 -> [schema |-> Some(parts[1]), table |-> parts[2]]
         [] Len(parts) = 3 -> [schema |-> Some(parts[2]), table |-> parts[3]]
         [] OTHER -> [schema |-> None, table |-> clean]

\* the WHERE clause of both catalog queries: TABLE_NAME, and TABLE_SCHEMA when
\* the name carries one
InWhere(t, parsed) ==
    /\ t.name = parsed.table
    /\ parsed.schema # None => t.schema = Unwrap(parsed.schema)

\* the rows of INFORMATION_SCHEMA.COLUMNS that pass the WHERE clause, in ORDER BY
\* ORDINAL_POSITION: the columns at position p of every matching table, then p + 1
RECURSIVE AtOrdinal(_, _)
AtOrdinal(tables, p) ==
    IF tables = <<>> THEN <<>>
    ELSE (IF Len(Head(tables).cols) >= p THEN <<Head(tables).cols[p]>> ELSE <<>>)
            \o AtOrdinal(Tail(tables), p)

RECURSIVE ByOrdinal(_, _)
ByOrdinal(tables, p) ==
    IF \A i \in 1..Len(tables) : Len(tables[i].cols) < p
    THEN <<>>
    ELSE AtOrdinal(tables, p) \o ByOrdinal(tables, p + 1)

ColumnRows(cat, table_name) ==
    ByOrdinal(SelectSeq(cat, LAMBDA t : InWhere(t, ParseTableName(table_name))), 1)

\* the rows of the date-column query: the same WHERE clause and DATA_TYPE = 'date'
DateRows(cat, table_name) == Names(SelectSeq(ColumnRows(cat, table_name), IsDate))

\* a catalog lookup fails, or answers with rows
LookupFailed == [ok |-> FALSE, rows |-> <<>>]
LookupRows(rows) == [ok |-> TRUE, rows |-> rows]

\* the answers get_date_columns may get: an error, no row with its cell set, or
\* the rows of its query
DateAnswers(cat, table_name) ==
    {LookupFailed, LookupRows(<<>>), LookupRows(DateRows(cat, table_name))}

\* the answers the column-list lookup may get: an error, no row with both cells
\* set, or the rows of its query
ColumnAnswers(cat, table_name) ==
    {LookupFailed, LookupRows(<<>>), LookupRows(ColumnRows(cat, table_name))}

\* is_select_star_query that looks for TOP anywhere and for any *
IsSelectStarQueryAnyTop(q) ==
    /\ SubSeq(Trim(ToUpper(q)), 1, 6) = KwSelect
    /\ \/ Occurrences(Trim(ToUpper(q)), KwSelectStar) # {}
       \/ /\ Occurrences(Trim(ToUpper(q)), <<"T", "O", "P">>) # {}
          /\ Occurrences(Trim(ToUpper(q)), KwStar) # {}

\* is_select_star_query that takes every SELECT
IsSelectStarQueryAnySelect(q) == SubSeq(Trim(ToUpper(q)), 1, 6) = KwSelect

\* QueryExecutor::is_select_star_query
IsSelectStarQuery(q) ==
    LET trimmed == Trim(ToUpper(q)) IN
    /\ StartsWith(trimmed, KwSelect)
    /\ \/ Contains(trimmed, KwSelectStar)
       \/ Contains(trimmed, KwSelectTop) /\ Contains(trimmed, KwSpacedStar)

\* QueryExecutor::extract_table_name
ExtractTableName(q) ==
    LET from_pos == Find(ToUpper(q), KwFrom) IN
    IF from_pos = None
    THEN None
    ELSE LET after_from == SliceFrom(q, Unwrap(from_pos) + 6)
             table_part == TakeUntil(Trim(after_from), Whitespace \cup {"(", ";"})
         IN IF table_part = <<>> THEN None ELSE Some(table_part)

\* one item of column_defs: a date column cast to text, any other bracket-quoted
ColumnDef(name, date_columns) ==
    IF \E i \in 1..Len(date_columns) : date_columns[i] = name
    THEN CastOpen \o name \o CastMid \o name \o <<"]">>
    ELSE <<"[">> \o name \o <<"]">>

RECURSIVE ColumnDefs(_, _)
ColumnDefs(rows, date_columns) ==
    IF rows = <<>> THEN <<>>
    ELSE <<ColumnDef(Head(rows).name, date_columns)>>
             \o ColumnDefs(Tail(rows), date_columns)

\* the TOP clause build_select_with_casts puts into the new query
TopClause(original) ==
    LET top_pos == Find(ToUpper(original), KwTop) IN
    IF top_pos = None
    THEN <<>>
    ELSE LET after_top == SliceFrom(original, Unwrap(top_pos) + 4)
             top_value == TakeWhileIn(Trim(after_top), Digits \cup {" "})
         IN KwTop \o Trim(top_value) \o <<" ">>

\* QueryExecutor::build_select_with_casts once its lookup has answered `rows`
BuildSelectWithCasts(original, date_columns, rows) ==
    LET column_defs == ColumnDefs(rows, date_columns)
        from_pos == Find(ToUpper(original), KwFrom)
    IN IF column_defs = <<>> \/ from_pos = None
       THEN None
       ELSE Some(KwSelect \o <<" ">> \o TopClause(original)
                   \o Join(column_defs, DefsSep) \o <<"\n">>
                   \o Trim(SliceFrom(original, Unwrap(from_pos))))

\* whether try_fix_date_columns gets as far as get_date_columns
TryFixLooksUp(q) ==
    StartsWith(Trim(ToUpper(q)), KwSelect) /\ ExtractTableName(q) # None

\* the test try_fix_date_columns makes before build_select_with_casts
UsesSelectStar(q) ==
    \/ Contains(ToUpper(q), KwSelectStar)
    \/ Contains(ToUpper(q), KwSelectTop) /\ Contains(ToUpper(q), KwStar)

\* str::replace: every occurrence, left to right
RECURSIVE ReplaceAll(_, _, _)
ReplaceAll(str, pat, new) ==
    IF str = <<>> THEN <<>>
    ELSE IF StartsWith(str, pat)
         THEN new \o ReplaceAll(SliceFrom(str, Len(pat)), pat, new)
         ELSE <<Head(str)>> \o ReplaceAll(Tail(str), pat, new)

\* the loop over date_columns that wraps the references to each column
RECURSIVE WrapColumns(_, _)
WrapColumns(fixed, cols) ==
    IF cols = <<>> THEN fixed
    ELSE LET col == Head(cols)
             replacement == CastOpen \o col \o CastMid \o col \o <<"]">>
             wrapped ==
                IF Contains(fixed, <<"[">> \o col \o <<"]">>)
                THEN ReplaceAll(fixed, <<"[">> \o col \o <<"]">>, replacement)
                ELSE IF Contains(fixed, col)
                     THEN ReplaceAll(fixed, col, replacement)
                     ELSE fixed
         IN WrapColumns(wrapped, Tail(cols))

\* try_fix_date_columns from the answer of get_date_columns on: the lookup it
\* goes on to, or what it returns
AfterDateLookup(q, ans) ==
    IF ~ans.ok \/ ans.rows = <<>>
    THEN [next |-> "query", fixed |-> None]
    ELSE IF UsesSelectStar(q)
         THEN [next |-> "cols", fixed |-> None]
         ELSE [next |-> "query",
               fixed |-> IF WrapColumns(q, ans.rows) # q
                         THEN Some(WrapColumns(q, ans.rows))
                         ELSE None]

\* build_select_with_casts from the answer of its lookup on
AfterColumnLookup(q, dates, ans) ==
    IF ~ans.ok THEN None ELSE BuildSelectWithCasts(q, dates, ans.rows)

\* query_to_execute that is empty when there is no rewritten text
QueryToExecuteOrNothing(q, fixed) == IF Len(fixed) = 1 THEN fixed[1] ELSE <<>>

\* query_to_execute: the rewritten text if there is one, else the query
QueryToExecute(q, fixed) == IF IsSome(fixed) THEN Unwrap(fixed) ELSE q

Request(i, kind, text) == [i |-> i, kind |-> kind, text |-> text]
Answer(i, kind, ok, rows, out) ==
    [i |-> i, kind |-> kind, ok |-> ok, rows |-> rows, out |-> out]

BatchOk(rs) == Some([ok |-> TRUE, results |-> rs, err |-> <<>>])
BatchErr(e) == Some([ok |-> FALSE, results |-> <<>>, err |-> e])

InitExec ==
    /\ pc = "exec"
    /\ AppNew
    /\ history = QueryHistoryNew(HistoryMax, <<>>)
    /\ HistIdle
    /\ DecIdle
    /\ batch \in SeqsUpTo(ExecQueries, MaxBatch)
    /\ catalog \in Catalogs
    /\ ex_pc = "loop"
    /\ ex_i = 1
    /\ ex_dates = <<>>
    /\ sent = <<>>
    /\ answers = <<>>
    /\ results = <<>>
    /\ batch_ret = None

\* execute sends the query text it has settled on
SendQuery(text) ==
    /\ sent' = Append(sent, Request(ex_i, "query", text))
    /\ ex_pc' = "query"

\* execute is entered for the next query of the batch
ExecuteBegin ==
    /\ ex_pc = "loop"
    /\ ex_i <= Len(batch)
    /\ IF IsSelectStarQuery(batch[ex_i]) /\ TryFixLooksUp(batch[ex_i])
       THEN /\ sent' = Append(sent, Request(ex_i, "dates",
                                            Unwrap(ExtractTableName(batch[ex_i]))))
            /\ ex_pc' = "dates"
       ELSE SendQuery(QueryToExecute(batch[ex_i], None))
    /\ ex_dates' = <<>>
    /\ UNCHANGED <<appVars, history, histVars, decVars, batch, catalog, ex_i, answers, results,
                   batch_ret>>

\* get_ex_dates returns
DatesAnswered ==
    /\ ex_pc = "dates"
    /\ \E ans \in DateAnswers(catalog, Unwrap(ExtractTableName(batch[ex_i]))) :
          /\ answers' = Append(answers, Answer(ex_i, "dates", ans.ok, Len(ans.rows),
                                               NoOutcome))
          /\ ex_dates' = ans.rows
          /\ IF AfterDateLookup(batch[ex_i], ans).next = "cols"
             THEN /\ sent' = Append(sent, Request(ex_i, "cols",
                                                  Unwrap(ExtractTableName(batch[ex_i]))))
                  /\ ex_pc' = "cols"
             ELSE SendQuery(QueryToExecute(batch[ex_i],
                                           AfterDateLookup(batch[ex_i], ans).fixed))
    /\ UNCHANGED <<appVars, history, histVars, decVars, batch, catalog, ex_i, results, batch_ret>>

\* the column-list lookup of build_select_with_casts returns
ColumnsAnswered ==
    /\ ex_pc = "cols"
    /\ \E ans \in ColumnAnswers(catalog, Unwrap(ExtractTableName(batch[ex_i]))) :
          /\ answers' = Append(answers, Answer(ex_i, "cols", ans.ok, Len(ans.rows),
                                               NoOutcome))
          /\ SendQuery(QueryToExecute(batch[ex_i],
                                      AfterColumnLookup(batch[ex_i], ex_dates, ans)))
    /\ UNCHANGED <<appVars, history, histVars, decVars, batch, catalog, ex_i, ex_dates,
                   results, batch_ret>>

\* "unsupported column type: 40"
SigUnsupported ==
    <<"u", "n", "s", "u", "p", "p", "o", "r", "t", "e", "d", " ", "c", "o", "l", "u",
      "m", "n", " ", "t", "y", "p", "e", ":", " ", "4", "0">>
\* "column type: 40"
SigColumnType ==
    <<"c", "o", "l", "u", "m", "n", " ", "t", "y", "p", "e", ":", " ", "4", "0">>
\* "reset"
ErrReset ==
    <<"r", "e", "s", "e", "t">>
\* the guidance error of execute, whole
DateGuidance ==
    <<"T", "a", "b", "l", "e", " ", "c", "o", "n", "t", "a", "i", "n", "s", " ", "D",
      "A", "T", "E", " ", "c", "o", "l", "u", "m", "n", "s", " ", "w", "h", "i", "c",
      "h", " ", "a", "r", "e", " ", "n", "o", "t", " ", "s", "u", "p", "p", "o", "r",
      "t", "e", "d", " ", "b", "y", " ", "t", "h", "e", " ", "d", "r", "i", "v", "e",
      "r", ".", " ", "P", "l", "e", "a", "s", "e", " ", "c", "a", "s", "t", " ", "D",
      "A", "T", "E", " ", "c", "o", "l", "u", "m", "n", "s", " ", "t", "o", " ", "V",
      "A", "R", "C", "H", "A", "R", " ", "m", "a", "n", "u", "a", "l", "l", "y", ",",
      " ", "e", ".", "g", ".", ":", "\n", "S", "E", "L", "E", "C", "T", " ", "C", "O",
      "N", "V", "E", "R", "T", "(", "V", "A", "R", "C", "H", "A", "R", "(", "1", "0",
      ")", ",", " ", "d", "a", "t", "e", "_", "c", "o", "l", "u", "m", "n", ",", " ",
      "2", "3", ")", " ", "a", "s", " ", "d", "a", "t", "e", "_", "c", "o", "l", "u",
      "m", "n", " ", "F", "R", "O", "M", " ", "t", "a", "b", "l", "e">>

\* the texts of the errors the driver reports
DriverTexts == {SigUnsupported, ErrReset}

\* what the driver does with the text sent: simple_query fails, into_results
\* fails, or into_results hands over the result sets
SendFailed(e) == [stage |-> "send", err |-> e, sets |-> <<>>]
RowsFailed(e) == [stage |-> "rows", err |-> e, sets |-> <<>>]
Answered(sets) == [stage |-> "done", err |-> <<>>, sets |-> sets]

\* the cells of the rows: a column's name, its wire type, what the conversion
\* asked of it gives, and the text Display writes for the value it holds
RowCellText(name, type, got, text) ==
    [name |-> name, type |-> type, probe |-> [r \in {Dispatch[type].rust} |-> got],
     text |-> text]
RowCell(name, type, got) == RowCellText(name, type, got, <<"7">>)
RowA == <<RowCell(<<"n">>, "Int4", "value")>>
RowB == <<RowCell(<<"n">>, "Int4", "value"), RowCell(<<"m">>, "NVarchar", "null")>>
RowBad == <<RowCell(<<"t">>, "Timen", "mismatch")>>
\* two rows of one result set: a name longer than its cells and a name shorter,
\* a text of wide characters, a longer cell after a shorter one and a shorter
\* cell after a longer one
RowWide ==
    <<RowCellText(<<"t", "o", "t", "a", "l">>, "Int4", "value", <<"7">>),
      RowCellText(<<"é">>, "NVarchar", "value", <<"é", "é", "é">>)>>
RowNarrow ==
    <<RowCellText(<<"t", "o", "t", "a", "l">>, "Int4", "value",
                  <<"1", "2", "3", "4", "5", "6">>),
      RowCellText(<<"é">>, "NVarchar", "value", <<"x">>)>>

\* a result set of n rows
Rows(row, n) == [k \in 1..n |-> row]

\* the result sets a batch may produce: none, one, two of different widths in
\* either order, and one with a cell the driver cannot convert
DriverSets ==
    {<<>>,
     <<Rows(RowA, 1)>>,
     <<Rows(RowB, MaxRows)>>,
     <<Rows(RowA, 1), Rows(RowB, 1)>>,
     <<Rows(RowB, 1), Rows(RowA, MaxRows)>>,
     <<Rows(RowBad, 1)>>,
     <<<<RowWide, RowNarrow>>>>,
     <<<<RowNarrow>>, <<RowA, RowWide>>>>}

DriverAnswers ==
    {SendFailed(e) : e \in DriverTexts} \cup {RowsFailed(e) : e \in DriverTexts}
       \cup {Answered(sets) : sets \in DriverSets}

\* the answers taken for each query of a batch
BatchAnswers ==
    {SendFailed(ErrReset), Answered(<<>>), Answered(<<Rows(RowB, MaxRows)>>),
     Answered(<<Rows(RowBad, 1)>>)}

\* `for result in results { for row in result {`: the rows of all sets, in order
RECURSIVE AllRows(_)
AllRows(sets) == IF sets = <<>> THEN <<>> ELSE Head(sets) \o AllRows(Tail(sets))

\* value.to_string() of the cell's decoded value: Display writes NULL for Null
\* and the text of the value otherwise
CellToString(c) ==
    IF ExtractCellValue(c) = NullValue THEN <<"N", "U", "L", "L">> ELSE c.text

\* the columns taken from a row: `max_width: c.name().len().max(4)`
NewColumns(row) ==
    [k \in 1..Len(row) |->
        [name |-> row[k].name, max_width |-> Max(ByteLen(row[k].name), MinWidth)]]

\* a max_width that takes the length of the last cell decoded
WidenOverwrites(max_width, value_len) == value_len

\* `columns[i].max_width.max(value_len)`
Widen(max_width, value_len) == Max(max_width, value_len)

\* the loop over the cells of one row, from cell i on
RECURSIVE WidenFrom(_, _, _)
WidenFrom(columns, row, i) ==
    IF i > Len(row)
    THEN columns
    ELSE WidenFrom(IF i <= Len(columns)
                   THEN [columns EXCEPT
                           ![i].max_width = Widen(@, ByteLen(CellToString(row[i])))]
                   ELSE columns,
                   row, i + 1)

\* the loop over the rows: the columns are taken from the row met while the
\* list is empty, and every cell of every row widens its column
RECURSIVE ColumnsFrom(_, _)
ColumnsFrom(columns, rows) ==
    IF rows = <<>>
    THEN columns
    ELSE ColumnsFrom(WidenFrom(IF columns = <<>> THEN NewColumns(Head(rows)) ELSE columns,
                               Head(rows), 1),
                     Tail(rows))

\* the columns process_results returns
ColumnsOf(rows) == ColumnsFrom(<<>>, rows)

\* row_data of every row: extract_cell_value of each of its cells
RowData(rows) ==
    [r \in 1..Len(rows) |-> [k \in 1..Len(rows[r]) |-> ExtractCellValue(rows[r][k])]]

\* a cell of some row makes extract_cell_value panic
Panics(sets) ==
    \E r \in 1..Len(RowData(AllRows(sets))) :
       \E k \in 1..Len(RowData(AllRows(sets))[r]) : RowData(AllRows(sets))[r][k] = Panic

\* QueryExecutor::process_results once into_results has handed over the sets
ProcessResults(sets) ==
    OkOutcome([columns |-> ColumnsOf(AllRows(sets)),
               rows |-> RowData(AllRows(sets)),
               row_count |-> Len(RowData(AllRows(sets)))])

\* what execute returns for the driver's answer: the match on the result of
\* simple_query, and process_results with its `?` on into_results
ExecuteResult(d) ==
    CASE d.stage = "send" ->
            IF Contains(d.err, SigUnsupported) \/ Contains(d.err, SigColumnType)
            THEN ErrOutcome(<<DateGuidance>>)
            ELSE ErrOutcome(<<d.err>>)
      [] d.stage = "rows" -> ErrOutcome(<<d.err>>)
      [] d.stage = "done" -> ProcessResults(d.sets)

QueryAnswer(i, d, out) ==
    [i |-> i, kind |-> "query", ok |-> out.ok, rows |-> Len(AllRows(d.sets)),
     out |-> out, drv |-> d]
PanicAnswer(i, d) ==
    [i |-> i, kind |-> "panic", ok |-> FALSE, rows |-> 0, out |-> NoOutcome, drv |-> d]

\* execute_batch that leaves a failed query out and goes on
BatchTakesSkippingErrors(out) ==
    /\ results' = IF out.ok THEN Append(results, out.res) ELSE results
    /\ ex_i' = ex_i + 1
    /\ ex_pc' = "loop"
    /\ UNCHANGED batch_ret

\* `let result = Self::execute(client, query).await?; results.push(result)`
BatchTakes(out) ==
    IF out.ok
    THEN /\ results' = Append(results, out.res)
         /\ ex_i' = ex_i + 1
         /\ ex_pc' = "loop"
         /\ UNCHANGED batch_ret
    ELSE /\ batch_ret' = BatchErr(out.err)
         /\ ex_pc' = "returned"
         /\ UNCHANGED <<results, ex_i>>

\* the driver answers the query with d: execute returns and execute_batch takes
\* its outcome, or a cell panics and takes the caller with it
QueryAnswered(d) ==
    /\ ex_pc = "query"
    /\ IF d.stage = "done" /\ Panics(d.sets)
       THEN /\ answers' = Append(answers, PanicAnswer(ex_i, d))
            /\ ex_pc' = "panicked"
            /\ UNCHANGED <<results, ex_i, batch_ret>>
       ELSE /\ answers' = Append(answers, QueryAnswer(ex_i, d, ExecuteResult(d)))
            /\ BatchTakes(ExecuteResult(d))
    /\ UNCHANGED <<appVars, history, histVars, decVars, batch, catalog, ex_dates, sent>>

\* the loop is over: Ok(results)
BatchReturns ==
    /\ ex_pc = "loop"
    /\ ex_i > Len(batch)
    /\ batch_ret' = BatchOk(results)
    /\ ex_pc' = "returned"
    /\ UNCHANGED <<appVars, history, histVars, decVars, batch, catalog, ex_i, ex_dates, sent,
                   answers, results>>

NextExec ==
    \/ ExecuteBegin
    \/ DatesAnswered
    \/ ColumnsAnswered
    \/ \E d \in BatchAnswers : QueryAnswered(d)
    \/ BatchReturns

SpecExec == InitExec /\ [][NextExec]_vars

\* execute called with one query, of every shape
InitQuery ==
    /\ pc = "query"
    /\ AppNew
    /\ history = QueryHistoryNew(HistoryMax, <<>>)
    /\ HistIdle
    /\ DecIdle
    /\ batch \in {<<q>> : q \in ShapeQueries}
    /\ catalog \in Catalogs
    /\ ex_pc = "loop"
    /\ ex_i = 1
    /\ ex_dates = <<>>
    /\ sent = <<>>
    /\ answers = <<>>
    /\ results = <<>>
    /\ batch_ret = None

NextQuery ==
    \/ ExecuteBegin
    \/ DatesAnswered
    \/ ColumnsAnswered
    \/ \E d \in DriverAnswers : QueryAnswered(d)
    \/ BatchReturns

SpecQuery == InitQuery /\ [][NextQuery]_vars


\* ------------------------------------------- QueryHistory on its own
MaxCap == 3        \* largest max_entries a history is built with
MaxLoaded == 3     \* most entries the history file holds when it is loaded

\* the texts added: two that differ only in trailing whitespace, and another
HistTexts == {<<"a">>, <<"a", " ">>, <<"a", "a">>}

\* what the history file may hold: load takes it as it is, whatever max_entries is
LoadedHistories == SeqsUpTo({HistoryEntry(q, 0, 0) : q \in HistTexts}, MaxLoaded)

\* entries.get(i), i counted from 0
EntryAt(h, i) == IF i < Len(h.entries) THEN Some(h.entries[i + 1]) ELSE None

\* previous that goes round to the newest entry from the oldest
HistoryPreviousWraps(h) ==
    IF h.entries = <<>>
    THEN [h |-> h, ret |-> None]
    ELSE LET new_index ==
               IF IsSome(h.current_index) /\ Unwrap(h.current_index) > 0
               THEN Unwrap(h.current_index) - 1
               ELSE Len(h.entries) - 1
         IN [h |-> [h EXCEPT !.current_index = Some(new_index)],
             ret |-> Some(h.entries[new_index + 1])]

\* QueryHistory::previous: the history after the call and what it returns
HistoryPrevious(h) ==
    IF h.entries = <<>>
    THEN [h |-> h, ret |-> None]
    ELSE LET new_index ==
               IF IsSome(h.current_index)
               THEN IF Unwrap(h.current_index) > 0
                    THEN Unwrap(h.current_index) - 1
                    ELSE Unwrap(h.current_index)
               ELSE Len(h.entries) - 1
         IN [h |-> [h EXCEPT !.current_index = Some(new_index)],
             ret |-> EntryAt(h, new_index)]

\* QueryHistory::next
HistoryNext(h) ==
    IF h.entries = <<>>
    THEN [h |-> h, ret |-> None]
    ELSE IF IsSome(h.current_index) /\ Unwrap(h.current_index) < Len(h.entries) - 1
         THEN [h |-> [h EXCEPT !.current_index = Some(Unwrap(h.current_index) + 1)],
               ret |-> EntryAt(h, Unwrap(h.current_index) + 1)]
         ELSE [h |-> h, ret |-> None]

\* clear that empties the entries and leaves the recall cursor
HistoryClearKeepsCursor(h) == [h EXCEPT !.entries = <<>>]

\* QueryHistory::reset_navigation and QueryHistory::clear
HistoryResetNavigation(h) == [h EXCEPT !.current_index = None]
HistoryClear(h) == [h EXCEPT !.entries = <<>>, !.current_index = None]

\* entries the while loop of add removes after the push
Evicted(h) == SatSub(Len(h.entries) + 1, h.max_entries)

InitHistory ==
    /\ pc = "history"
    /\ AppNew
    /\ history \in {QueryHistoryNew(m, e) : m \in 1..MaxCap, e \in LoadedHistories}
    /\ LibIdle

QueryHistoryAdd ==
    /\ pc = "history"
    /\ \E q \in HistTexts, saved \in BOOLEAN :
          /\ history' = HistoryAddThenSave(history, history.max_entries, q, 0, 0, saved)
          /\ call' = [op |-> "add", q |-> q, was |-> history.current_index,
                      pushed |-> ~SameAsLast(history, q),
                      evicted |-> IF SameAsLast(history, q) THEN 0 ELSE Evicted(history)]
    /\ UNCHANGED <<appVars, ret, execVars, decVars>>

QueryHistoryPrevious ==
    /\ pc = "history"
    /\ history' = HistoryPrevious(history).h
    /\ ret' = HistoryPrevious(history).ret
    /\ call' = [NoCall EXCEPT !.op = "previous", !.was = history.current_index]
    /\ UNCHANGED <<appVars, execVars, decVars>>

QueryHistoryNext ==
    /\ pc = "history"
    /\ history' = HistoryNext(history).h
    /\ ret' = HistoryNext(history).ret
    /\ call' = [NoCall EXCEPT !.op = "next", !.was = history.current_index]
    /\ UNCHANGED <<appVars, execVars, decVars>>

QueryHistoryResetNavigation ==
    /\ pc = "history"
    /\ history' = HistoryResetNavigation(history)
    /\ call' = [NoCall EXCEPT !.op = "reset_navigation", !.was = history.current_index]
    /\ UNCHANGED <<appVars, ret, execVars, decVars>>

QueryHistoryClear ==
    /\ pc = "history"
    /\ history' = HistoryClear(history)
    /\ call' = [NoCall EXCEPT !.op = "clear", !.was = history.current_index]
    /\ UNCHANGED <<appVars, ret, execVars, decVars>>

NextHistory ==
    \/ QueryHistoryAdd
    \/ QueryHistoryPrevious
    \/ QueryHistoryNext
    \/ QueryHistoryResetNavigation
    \/ QueryHistoryClear

SpecHistory == InitHistory /\ [][NextHistory]_vars

\* ------------------------------------------- the editor on its own
MaxText == 4       \* bytes of text the operator's additions stay within

\* the keys of handle_query_editor other than Enter and F5; the character the
\* operator types is a wide one
EditorKeys ==
    {"é", "ShiftEnter", "CtrlF", "Tab", "Backspace", "Delete", "Left", "Right",
     "Up", "Down", "Home", "End", "Esc"}
Grows(k) == k \in Typed \cup {"ShiftEnter", "Tab"}

\* what an editor key did, for the record kept in `last`
KeyKind(k) == IF k = "CtrlF" THEN "format_sql" ELSE "edit"

\* what the schema panel may have selected: nothing, a table, a procedure
SchemaNodes ==
    {None,
     Some([name |-> <<"é">>, node_type |-> "Table"]),
     Some([name |-> <<"é">>, node_type |-> "Procedure"])}

\* the history the editor loads from: a keyword, a comma and a wide character,
\* and two lines
EditorHistory ==
    <<HistoryEntry(<<"o", "n", ",", "é">>, 0, 0),
      HistoryEntry(<<"é", "\n", "é">>, 0, 0)>>

InitEditor ==
    /\ pc = "editor"
    /\ AppNew
    /\ history = QueryHistoryNew(HistoryMax, EditorHistory)
    /\ LibIdle

\* the editor has done an operation: the text and the cursor it leaves, and the
\* process gone if the operation panicked
EditorDid(what, r) ==
    /\ query' = r.query
    /\ cursor_pos' = r.cursor_pos
    /\ pc' = IF r.panic THEN "panicked" ELSE "editor"
    /\ last' = what
    /\ UNCHANGED <<result, is_loading, error, message, results_tab, show_help,
                   results_scroll, results_selected, results_col_selected,
                   history, spinner_frame, pending_query, pending_query_text,
                   should_quit, bgVars, consumed, libVars>>

EditorKey(k) ==
    /\ pc = "editor"
    /\ \E checked \in (IF k \in {"Up", "Down"} THEN BOOLEAN ELSE {TRUE}) :
          LET r == HandleQueryEditorKey(query, cursor_pos, k, checked)
          IN /\ Grows(k) => ByteLen(r.query) <= MaxText
             /\ EditorDid(KeyKind(k), r)
    /\ UNCHANGED active_panel

EditorInsertSchemaObject ==
    /\ pc = "editor"
    /\ \E node \in SchemaNodes :
          /\ ByteLen(InsertSchemaObject(query, cursor_pos, node).query) <= MaxText
          /\ EditorDid("edit", InsertSchemaObject(query, cursor_pos, node))
          /\ active_panel' = IF node # None /\ Unwrap(node).node_type = "Table"
                             THEN "QueryEditor"
                             ELSE active_panel

EditorLoadHistoryEntry ==
    /\ pc = "editor"
    /\ \E i \in 1..Len(history.entries) :
          EditorDid("edit", LoadHistoryEntry(history.entries[i]))
    /\ active_panel' = "QueryEditor"

NextEditor ==
    \/ \E k \in EditorKeys : EditorKey(k)
    \/ EditorInsertSchemaObject
    \/ EditorLoadHistoryEntry

SpecEditor == InitEditor /\ [][NextEditor]_vars

\* ------------------------------------------------------- vocabulary
Blank(s) == \A i \in 1..Len(s) : s[i] \in Whitespace

\* a step of the run loop that is one call of check_query_completion
CheckStep == pc = "check" /\ pc' = "spin"

\* a step that is exactly one call of start_query: the direct call, or Enter in
\* the query editor (handle_key leaves the message alone for Enter)
StartQueryStep ==
    \/ CallStartQuery
    \/ (RunKey("Enter") /\ ~is_loading /\ ~show_help /\ active_panel = "QueryEditor")

\* the channel whose receiver the pending slot holds
PendingChan == chan[Unwrap(pending_query)]

Unsent == {t \in TaskIds : op[t].st \in {"wait", "held", "inflight", "ready"}}
Alive == {t \in TaskIds : TaskAlive(t)}

\* ------------------------------------------------------------ claims

\* C1: start_query is a no-op when the query text is empty or whitespace-only, or
\* when is_loading is already true: no channel is created, no task is spawned, and
\* is_loading, error, message, spinner_frame, pending_query, pending_query_text,
\* result and history stay as they were.
C1_RejectedStartIsNoOp ==
    [][(StartQueryStep /\ (Blank(query) \/ is_loading))
        => UNCHANGED <<is_loading, error, message, spinner_frame, pending_query,
                       pending_query_text, result, history, chan, op, spawned>>]_vars

\* start_query was called with text to run while a query was loading
C1_Witness ==
    /\ last = "start_rejected"
    /\ pc = "check"
    /\ is_loading
    /\ ~Blank(query)

\* C2: a start_query made in Idle with non-blank text leaves is_loading true, error
\* and message cleared, a fresh channel's receiver in pending_query, the editor text
\* of that moment in pending_query_text and exactly one new background task; a
\* further start_query while the query is loading changes nothing.
C2_AcceptedStart ==
    [][/\ (StartQueryStep /\ ~is_loading /\ ~Blank(query)) =>
            /\ is_loading'
            /\ error' = None
            /\ message' = None
            /\ IsSome(pending_query')
            /\ chan[Unwrap(pending_query')].st = "none"
            /\ chan'[Unwrap(pending_query')].st = "empty"
            /\ pending_query_text' = Some(query)
            /\ Cardinality({t \in TaskIds : op[t].st = "none" /\ op'[t].st = "wait"}) = 1
            /\ \A t \in TaskIds : op'[t] # op[t] => op[t].st = "none"
       /\ (StartQueryStep /\ is_loading) => UNCHANGED <<uiVars, bgVars>>
      ]_vars

\* a query was accepted and is loading
C2_Witness ==
    /\ last = "start_accepted"
    /\ pc = "check"
    /\ is_loading
    /\ pending_query_text = Some(query)

\* C3 as stated: in every reachable state at most one background task exists
\* (spawned and not yet finished).
C3_AtMostOneTaskAlive == Cardinality(Alive) <= 1

\* C3 amended: at most one background task exists that has neither sent its
\* outcome nor dropped its sender; a task that has sent may still be alive, holding
\* the connection lock, when the next one is spawned, so up to two tasks exist.
C3_AtMostOneTaskUnsent ==
    /\ Cardinality(Unsent) <= 1
    /\ Cardinality(Alive) <= 2

\* a query started right after the previous completion was observed, while the
\* previous task has still to drop its guard
C3_Witness ==
    /\ last = "start_accepted"
    /\ \E t, u \in TaskIds : op[t].st = "sent" /\ op[u].st = "wait"

\* the history after add(q, time, rows), by the adjacent-duplicate rule
ExpectedEntries(entries, q, res) ==
    IF entries # <<>> /\ Trim(entries[Len(entries)].query) = Trim(q)
    THEN entries
    ELSE Append(entries, [query |-> q, time |-> res.time, rows |-> res.rows])

\* C4: when check_query_completion finds a successful result on the channel, in
\* that one step it adds the history entry for the retained text (the result's time
\* and row count, adjacent duplicates skipped), replaces the published result by the
\* received one, resets results_scroll and results_selected to 0, sets the success
\* message, moves focus to Results and clears is_loading and the pending slot.
C4_SuccessfulCompletion ==
    [][(CheckStep /\ IsSome(pending_query) /\ PendingChan.st = "full"
            /\ PendingChan.val.ok) =>
         /\ IsSome(pending_query_text)
         /\ history'.entries = ExpectedEntries(history.entries,
                                               Unwrap(pending_query_text),
                                               PendingChan.val.res)
         /\ result' = PendingChan.val.res
         /\ results_scroll' = 0
         /\ results_selected' = 0
         /\ message' = Some([kind |-> "rows", rows |-> PendingChan.val.res.rows,
                             time |-> PendingChan.val.res.time])
         /\ active_panel' = "Results"
         /\ ~is_loading'
         /\ pending_query' = None
         /\ pending_query_text' = None
      ]_vars

\* a successful result was published and logged
C4_Witness ==
    /\ last = "check_ok"
    /\ pc = "spin"
    /\ active_panel = "Results"
    /\ result.rows = MaxRows
    /\ history.entries # <<>>

\* C5: when the query completes with an error, check_query_completion sets error
\* to the received message and clears is_loading and the pending slot, records no
\* history entry and leaves the published result, the selection indices and the
\* active panel as they were.
C5_FailedCompletion ==
    [][(CheckStep /\ IsSome(pending_query) /\ PendingChan.st = "full"
            /\ ~PendingChan.val.ok) =>
         /\ error' = Some(PendingChan.val.err)
         /\ ~is_loading'
         /\ pending_query' = None
         /\ pending_query_text' = None
         /\ UNCHANGED <<history, result, results_scroll, results_selected,
                        results_col_selected, active_panel>>
      ]_vars

\* an error was received and reported
C5_Witness ==
    /\ last = "check_err"
    /\ pc = "spin"
    /\ IsSome(error)
    /\ ~is_loading

\* C6: when the channel is observed closed without a value, check_query_completion
\* reports "Query execution was interrupted", clears is_loading, pending_query and
\* pending_query_text and leaves the published result and the history as they
\* were, so that a new query can be started.
C6_InterruptedCompletion ==
    [][(CheckStep /\ IsSome(pending_query) /\ PendingChan.st = "closed") =>
         /\ error' = Some(<<"Query execution was interrupted">>)
         /\ ~is_loading'
         /\ pending_query' = None
         /\ pending_query_text' = None
         /\ UNCHANGED <<result, history>>
      ]_vars

\* a new query was accepted after an interruption had been reported
C6_Witness ==
    /\ last = "start_accepted"
    /\ \E t \in TaskIds : chan[t].st = "closed" /\ consumed[t] = 1

\* C7: the outcome of a started query is consumed at most once and only by the
\* foreground's check_query_completion: the channel's value is taken only there,
\* the result and the history change only there (and at startup), a check with no
\* pending query changes nothing, and the published result is the previous one or
\* the received one as a whole.
C7_ConsumedOnce ==
    /\ [](\A t \in TaskIds : consumed[t] <= 1)
    /\ [][/\ (CheckStep /\ pending_query = None) => UNCHANGED <<uiVars, bgVars>>
          /\ \A t \in TaskIds :
                (chan[t].st = "full" /\ chan'[t] # chan[t]) =>
                    (CheckStep /\ pending_query = Some(t))
          /\ (result' # result \/ history' # history) =>
                \/ pc = "default"
                \/ /\ CheckStep
                   /\ IsSome(pending_query)
                   /\ PendingChan.st = "full"
                   /\ PendingChan.val.ok
                   /\ result' = PendingChan.val.res
                   /\ Len(history'.entries) <= Len(history.entries) + 1
         ]_vars

\* an outcome was consumed and a later check found nothing pending
C7_Witness ==
    /\ last = "check_idle"
    /\ pc = "spin"
    /\ \E t \in TaskIds : consumed[t] = 1

\* C8: there is no cancellation: is_loading goes from true to false only in a
\* check_query_completion step that received a value or observed the channel
\* closed; no key, mouse or other foreground step does it.
C8_NoCancellation ==
    [][(is_loading /\ ~is_loading') =>
         /\ CheckStep
         /\ IsSome(pending_query)
         /\ PendingChan.st \in {"full", "closed"}
      ]_vars

\* a key other than the quit shortcut was pressed while loading: still loading
C8_Witness ==
    /\ last = "key_loading"
    /\ pc = "check"
    /\ is_loading
    /\ ~should_quit

\* C9: no step of the background task writes UI state: UI state changes only in
\* foreground steps, and a task puts at most one value on its channel.
C9_BackgroundWritesNoUiState ==
    [][/\ (uiVars' # uiVars) => pc' # pc
       /\ (\E t \in TaskIds : TaskStep(t)) => UNCHANGED uiVars
       /\ \A t \in TaskIds :
             (chan'[t] # chan[t] /\ chan'[t].st = "full") => chan[t].st = "empty"
      ]_vars

\* a task has sent a result the foreground has not yet taken
C9_Witness ==
    /\ is_loading
    /\ \E t \in TaskIds :
          /\ pending_query = Some(t)
          /\ chan[t].st = "full"
          /\ chan[t].val.ok
          /\ chan[t].val.res # result

\* C10: the connection is held by at most one operation at a time, and only its
\* holder has a request on the wire, so two operations never interleave there.
C10_ConnectionExclusive ==
    /\ Cardinality(lock) <= 1
    /\ Cardinality(wire) <= 1
    /\ wire \subseteq lock
    /\ \A o \in OpIds : op[o].st \in {"held", "inflight", "ready", "sent"} => lock = {o}

\* a task waits for the lock another task holds
C10_Witness ==
    \E t, u \in TaskIds : t # u /\ lock = {t} /\ op[u].st = "wait" /\ last = "spin"

\* round trips one acquisition of `o` may make: the startup phase's count for the
\* foreground, the rewriter's lookups and the query itself for a task
TripLimit(o) == IF o = Fg THEN StartupTrips(pc) ELSE MaxLookups + 1

InLoop == pc \in {"check", "spin", "poll"}

\* C12: while a query is outstanding the run loop never takes the connection lock
\* and never waits for the background task: the foreground holds no place at the
\* lock, no loop step changes that, and the step the loop is at (the channel poll,
\* the redraw and spinner, the input poll) can be taken whatever the task does.
C12_LoopNeverBlocks ==
    /\ [](InLoop =>
            /\ op[Fg].st = "none"
            /\ Fg \notin lock
            /\ (pc = "check" /\ ~WaitedLong) => ENABLED RunCheck
            /\ pc = "spin" => ENABLED RunSpinner
            /\ pc = "poll" => ENABLED RunNoEvent)
    /\ [][InLoop => (op'[Fg] = op[Fg] /\ (Fg \in lock' <=> Fg \in lock)
                     /\ (Fg \in wire' <=> Fg \in wire))]_vars

\* the loop went round while the task of the pending query held the connection
C12_Witness ==
    /\ is_loading
    /\ pc = "poll"
    /\ spinner_frame >= 1
    /\ \E t \in TaskIds : pending_query = Some(t) /\ lock = {t} /\ t \in wire

\* C13: nothing is retried: a task is spawned only by a start_query the operator
\* triggers, a task whose execute returned sends no further request, and a request
\* goes out only for the pending query's task, so after an error or an interruption
\* was observed the run loop's connection is quiet until the next accepted
\* start_query.
C13_NoAutomaticRetry ==
    [][/\ spawned' # spawned =>
             (pc = "poll" /\ ~is_loading /\ last' = "start_accepted")
       /\ \A t \in TaskIds :
             /\ op[t].st = "ready" => op'[t].st \in {"ready", "sent", "done"}
             /\ (t \in wire' /\ t \notin wire) =>
                   (is_loading /\ pending_query = Some(t) /\ chan[t].st = "empty")
       /\ (InLoop /\ ~is_loading /\ ~is_loading') => wire' \subseteq wire
      ]_vars

\* an error was observed, the operator did nothing for a tick, the wire is quiet
C13_Witness ==
    /\ last = "event"
    /\ pc = "check"
    /\ ~is_loading
    /\ IsSome(error)
    /\ wire = {}
    /\ Unsent = {}
    /\ \E t \in TaskIds : consumed[t] = 1

\* C17: a failure to persist the history file is absorbed: when save fails, add
\* has still put the entry into the in-memory sequence and has returned, and
\* check_query_completion publishes the result, sets the success message, clears
\* is_loading and the pending slot and leaves error empty.
C17_SaveFailureAbsorbed ==
    [][(CheckStep /\ last' = "check_ok_unsaved") =>
         /\ IsSome(pending_query) /\ PendingChan.st = "full" /\ PendingChan.val.ok
         /\ history'.entries =
               Append(history.entries,
                      HistoryEntry(Unwrap(pending_query_text),
                                   PendingChan.val.res.time, PendingChan.val.res.rows))
         /\ history'.current_index = None
         /\ result' = PendingChan.val.res
         /\ message' = Some(RowsMessage(PendingChan.val.res))
         /\ error' = None
         /\ ~is_loading'
         /\ pending_query' = None
         /\ pending_query_text' = None
      ]_vars

\* a result was published although the history file could not be written
C17_Witness ==
    /\ last = "check_ok_unsaved"
    /\ pc = "spin"
    /\ ~is_loading
    /\ error = None
    /\ result.rows = MaxRows
    /\ history.entries # <<>>

\* the last entry of a non-empty history
Newest(h) == h.entries[Len(h.entries)]

\* C14: add is deduplicated against the immediately preceding entry only: a text
\* whose trimmed form equals that of the last entry leaves the history as it was
\* (the same text twice in a row gives one entry), and any other text is appended
\* as the newest entry, also when an older entry holds the same text.
C14_AdjacentDuplicateOnly ==
    [][call'.op = "add" =>
         /\ IF history.entries # <<>> /\ Trim(Newest(history).query) = Trim(call'.q)
            THEN history' = history
            ELSE /\ history'.entries # <<>>
                 /\ Newest(history') = HistoryEntry(call'.q, 0, 0)
                 /\ Len(history'.entries) =
                       Min(Len(history.entries) + 1, history.max_entries)
         /\ (call.op = "add" /\ call.q = call'.q) => history' = history
      ]_vars

\* a text was appended again after a different entry had come in between
C14_Witness ==
    /\ call.op = "add"
    /\ call.pushed
    /\ Len(history.entries) >= 3
    /\ Newest(history).query = call.q
    /\ Trim(history.entries[Len(history.entries) - 1].query) # Trim(call.q)
    /\ Trim(history.entries[Len(history.entries) - 2].query) = Trim(call.q)

\* C15: the history is capped: after any add the number of entries is at most
\* max_entries, eviction takes the oldest entries first, and the survivors keep
\* their order with the new entry last.
C15_CappedAfterAnyAdd ==
    [][call'.op = "add" =>
         /\ Len(history'.entries) <= history.max_entries
         /\ call'.pushed =>
               LET all == Append(history.entries, HistoryEntry(call'.q, 0, 0))
               IN history'.entries =
                     SubSeq(all, Len(all) - Len(history'.entries) + 1, Len(all))
      ]_vars

\* C16: the recall cursor is reset whenever an entry is appended: after an add
\* that appends, current_index is None and the next previous() returns the newest
\* entry, wherever the cursor stood before.
C16_AddResetsCursor ==
    [][(call'.op = "add" /\ call'.pushed) =>
         /\ history'.current_index = None
         /\ HistoryPrevious(history').ret = Some(HistoryEntry(call'.q, 0, 0))
         /\ HistoryPrevious(history').h.current_index = Some(Len(history'.entries) - 1)
      ]_vars

\* an entry was appended while the cursor stood on an older entry
C16_Witness ==
    /\ call.op = "add"
    /\ call.pushed
    /\ IsSome(call.was)
    /\ Unwrap(call.was) < Len(history.entries) - 1
    /\ history.current_index = None

\* ------------------------------------------- execute and execute_batch

\* the requests that carried a query text, in the order sent
QueriesSent == SelectSeq(sent, LAMBDA r : r.kind = "query")

\* the schema in which the server resolves a table name that carries none
DefaultSchema == <<"s">>

\* the table every query of this model names, as T or as s.T, and its date columns
TheTable(cat) ==
    CHOOSE t \in {cat[i] : i \in 1..Len(cat)} :
        t.schema = DefaultSchema /\ t.name = <<"T">>
TableDates(cat) == Names(SelectSeq(TheTable(cat).cols, IsDate))

\* a lookup answer the rewriter cannot use: an error, or no row
Unusable(a) == a.kind \in {"dates", "cols"} /\ (~a.ok \/ a.rows = 0)

\* C18: execute_batch runs the queries in the given order; at the first failing
\* query it stops, sends nothing further and returns that error with no partial
\* results; when all succeed it returns one result per query, in the same order.
C18_BatchFailFastInOrder ==
    /\ \A k \in 1..Len(QueriesSent) : QueriesSent[k].i = k
    /\ \A k \in 1..Len(sent) : \A l \in k..Len(sent) : sent[k].i <= sent[l].i
    /\ \A k \in 1..Len(answers) :
          (answers[k].kind = "query" /\ ~answers[k].ok) =>
              /\ k = Len(answers)
              /\ Len(sent) = k
              /\ Len(QueriesSent) = answers[k].i
              /\ batch_ret = BatchErr(answers[k].out.err)
    /\ (batch_ret # None /\ Unwrap(batch_ret).ok) =>
          /\ Len(Unwrap(batch_ret).results) = Len(batch)
          /\ Len(QueriesSent) = Len(batch)
          /\ \A k \in 1..Len(answers) :
                answers[k].kind = "query" =>
                    Unwrap(batch_ret).results[answers[k].i] = answers[k].out.res

C18_Witness ==
    /\ Len(batch) = 2
    /\ batch_ret # None
    /\ ~Unwrap(batch_ret).ok
    /\ Len(QueriesSent) = 1
    /\ results = <<>>

\* C19: when a catalog lookup of the rewriter fails or returns nothing usable,
\* the next request carries the original query text, and what execute returns is
\* the driver's answer to that request, never anything of the lookup (when a
\* cell of that answer panics, nothing is returned).
C19_CatalogFailureFallsBack ==
    \A k \in 1..Len(answers) :
       Unusable(answers[k]) =>
          /\ Len(sent) > k
          /\ sent[k + 1] = Request(answers[k].i, "query", batch[answers[k].i])
          /\ Len(answers) > k =>
                /\ answers[k + 1].kind \in {"query", "panic"}
                /\ answers[k + 1].i = answers[k].i
                /\ CASE answers[k + 1].kind = "panic" -> batch_ret = None
                     [] answers[k + 1].ok ->
                          results[answers[k].i] = answers[k + 1].out.res
                     [] OTHER -> batch_ret = BatchErr(answers[k + 1].out.err)

C19_Witness ==
    \E k \in 1..Len(answers) :
       /\ answers[k].kind = "cols"
       /\ ~answers[k].ok
       /\ Len(answers) > k
       /\ answers[k + 1].ok
       /\ TableDates(catalog) # <<>>

\* C20: when the table a SELECT * query names has no column of the date type,
\* try_fix_date_columns returns None after the date-column lookup, no column
\* list is asked for, and the text sent to the driver is the input text,
\* character for character.
C20_NoDateColumnsSendsInput ==
    TableDates(catalog) = <<>> =>
       \A k \in 1..Len(sent) :
          /\ sent[k].kind # "cols"
          /\ sent[k].kind = "query" => sent[k].text = batch[sent[k].i]

\* ------------------------------------------- the date-cast rewriter

\* the words of a text: what stands between its whitespace
RECURSIVE Words(_)
Words(t) ==
    LET rest == TrimStart(t) IN
    IF rest = <<>> THEN <<>>
    ELSE <<TakeUntil(rest, Whitespace)>>
            \o Words(SliceFrom(rest, Len(TakeUntil(rest, Whitespace))))

EndsWith(t, p) == Len(p) <= Len(t) /\ SubSeq(t, Len(t) - Len(p) + 1, Len(t)) = p

\* the requests that carried a rewritten text
Rewritten == SelectSeq(sent, LAMBDA r : r.kind = "query" /\ r.text # batch[r.i])

\* a column as the rewritten query is to list it
ListedAs(c) ==
    IF IsDate(c)
    THEN CastOpen \o c.name \o CastMid \o c.name \o <<"]">>
    ELSE <<"[">> \o c.name \o <<"]">>

\* the columns of a table as the rewritten query is to list them
ListOf(t) == Join([k \in 1..Len(t.cols) |-> ListedAs(t.cols[k])], DefsSep)

\* the text from the word FROM on, without the whitespace around it
FromOnward(q) == Trim(SliceFrom(q, Unwrap(Find(ToUpper(q), KwFrom))))

\* C21: the rewritten text of a SELECT * query on a table with a date column is
\* SELECT, then every column of that table once in ordinal order (date columns
\* cast, the others bracket-quoted), then the original text from FROM on.
C21_RewrittenListsTheTable ==
    TableDates(catalog) # <<>> =>
       \A k \in 1..Len(Rewritten) :
          /\ StartsWith(Rewritten[k].text, KwSelect \o <<" ">>)
          /\ EndsWith(Rewritten[k].text,
                      ListOf(TheTable(catalog)) \o <<"\n">>
                         \o FromOnward(batch[Rewritten[k].i]))
          /\ Cardinality(Occurrences(Rewritten[k].text, <<"[">>))
                = Cardinality(Occurrences(ListOf(TheTable(catalog)), <<"[">>))

\* the n of the TOP clause of a SELECT statement, if it has one
TopOf(q) ==
    LET words == Words(q) IN
    IF Len(words) >= 3 /\ ToUpper(words[1]) = KwSelect
                       /\ ToUpper(words[2]) = <<"T", "O", "P">>
    THEN Some(words[3])
    ELSE None

\* C22: the rewritten text has a TOP clause exactly when the original text has
\* one, and then with the same n in the same form.
C22_TopClausePreserved ==
    \A k \in 1..Len(Rewritten) :
       TopOf(Rewritten[k].text) = TopOf(batch[Rewritten[k].i])

\* a text that, trimmed and in upper case, starts with SELECT and holds SELECT *,
\* or holds TOP and a * standing alone
ClaimedSelectStar(q) ==
    LET t == Trim(ToUpper(q)) IN
    /\ StartsWith(t, KwSelect)
    /\ \/ Contains(t, KwSelectStar)
       \/ /\ Contains(t, <<"T", "O", "P">>)
          /\ \E k \in 1..Len(Words(t)) : Words(t)[k] = KwStar

\* the same with SELECT TOP for TOP and a * between two spaces
SelectStarShaped(q) ==
    LET t == Trim(ToUpper(q)) IN
    /\ StartsWith(t, KwSelect)
    /\ \/ \E k \in 1..(Len(t) - 7) : SubSeq(t, k, k + 7) = KwSelectStar
       \/ /\ \E k \in 1..(Len(t) - 9) : SubSeq(t, k, k + 9) = KwSelectTop
          /\ \E k \in 2..(Len(t) - 1) : t[k - 1] = " " /\ t[k] = "*" /\ t[k + 1] = " "

\* C23 as stated: is_select_star_query is true exactly of the texts that start
\* with SELECT and hold SELECT *, or TOP and a standalone *.
C23_SelectStarAsStated ==
    \A i \in 1..Len(batch) : IsSelectStarQuery(batch[i]) <=> ClaimedSelectStar(batch[i])

\* C23: is_select_star_query is true exactly of the texts that, trimmed and in
\* upper case, start with SELECT and hold SELECT *, or SELECT TOP and a *
\* between two spaces; execute goes to the catalog for these alone; it is true
\* of "SELECT * FROM T" and "select top 5 * from T", false of "SELECT a,b FROM T".
C23_SelectStarShape ==
    /\ \A i \in 1..Len(batch) :
          /\ IsSelectStarQuery(batch[i]) <=> SelectStarShaped(batch[i])
          /\ (sent # <<>> /\ sent[1].i = i /\ ExtractTableName(batch[i]) # None) =>
                (sent[1].kind = "dates" <=> SelectStarShaped(batch[i]))
    /\ IsSelectStarQuery(QStar)
    /\ IsSelectStarQuery(QTopStar)
    /\ ~IsSelectStarQuery(QTwoColumns)

C23_Witness ==
    /\ batch = <<QTopStar>>
    /\ sent # <<>>
    /\ sent[1].kind = "dates"

\* C24: a query that is not of the SELECT * shape and names a date column is
\* sent with that name wrapped in the cast expression.
C24_ReferenceWrapped ==
    \A k \in 1..Len(sent) :
       (/\ sent[k].kind = "query"
        /\ batch[sent[k].i] = QDateColumn
        /\ TableDates(catalog) # <<>>) =>
           Contains(sent[k].text, CastOpen \o <<"d">> \o CastMid \o <<"d", "]">>)

FailsToDecode(c) ==
    /\ c.type \in DOMAIN Dispatch
    /\ c.probe[Dispatch[c.type].rust] = "mismatch"

\* C28: extract_cell_value returns one CellValue for every wire type and every
\* cell, never panicking, and Null for a cell that fails to decode as its type.
C28_DecoderTotal ==
    decoded # None =>
       /\ Unwrap(decoded).tag \in {"Null", "Bool", "Int", "Float", "String", "DateTime",
                                  "Binary"}
       /\ FailsToDecode(Unwrap(cell)) => Unwrap(decoded).tag = "Null"

\* the probes that give a value, by their place in the order text, temporal,
\* 64-bit integer, 64-bit float, decimal
Succeeding(c) ==
    {k \in 1..5 :
        c.probe[<<"&str", "NaiveDateTime", "i64", "f64", "Numeric">>[k]] = "value"}

\* C29: for a wire type without an arm the decoder returns the value of the
\* first probe that succeeds in the order text, temporal, 64-bit integer,
\* 64-bit float, decimal as text; if none succeeds, a String holding the type
\* tag between angle brackets; never Null and never a panic.
C29_FallbackProbeOrder ==
    (decoded # None /\ Unwrap(cell).type \in OtherTypes) =>
       LET c == Unwrap(cell)
           v == Unwrap(decoded)
       IN /\ v.tag \notin {"Null", "panic"}
          /\ Succeeding(c) = {} =>
                v.tag = "String" /\ v.from = "<" \o c.type \o ">"
          /\ \A k \in Succeeding(c) :
                (\A j \in Succeeding(c) : k <= j) =>
                   /\ v.from = <<"&str", "NaiveDateTime", "i64", "f64", "Numeric">>[k]
                   /\ v.tag = <<"String", "DateTime", "Int", "Float", "String">>[k]

C29_Witness ==
    /\ decoded # None
    /\ Unwrap(cell).type = "Intn"
    /\ Unwrap(cell).probe["&str"] = "mismatch"
    /\ Unwrap(cell).probe["NaiveDateTime"] = "null"
    /\ Unwrap(cell).probe["i64"] = "value"
    /\ Unwrap(cell).probe["f64"] = "value"
    /\ Unwrap(decoded).tag = "Int"

\* ------------------------------------------- errors and results of execute

\* C26: whenever the driver fails with the date-type signature in its error, at
\* either stage, execute returns the guidance error; every other failure of the
\* driver is returned with its own text.
C26_DateErrorBecomesGuidance ==
    \A k \in 1..Len(answers) :
       (answers[k].kind = "query" /\ answers[k].drv.stage \in {"send", "rows"}) =>
          /\ ~answers[k].out.ok
          /\ answers[k].out.err =
                IF \E p \in 1..(Len(answers[k].drv.err) - Len(SigColumnType) + 1) :
                      SubSeq(answers[k].drv.err, p, p + Len(SigColumnType) - 1)
                         = SigColumnType
                THEN <<DateGuidance>>
                ELSE <<answers[k].drv.err>>

\* C27: in every QueryResult that execute returns, each row has as many values
\* as there are columns, and row_count is the number of rows.
C27_RowsMatchColumns ==
    \A k \in 1..Len(answers) :
       (answers[k].kind = "query" /\ answers[k].out.ok) =>
          /\ \A r \in 1..Len(answers[k].out.res.rows) :
                Len(answers[k].out.res.rows[r]) = Len(answers[k].out.res.columns)
          /\ answers[k].out.res.row_count = Len(answers[k].out.res.rows)
          /\ answers[k].out.res.row_count = answers[k].rows

\* ------------------------------------------- every query is resolved

\* C30: with the loop turning and every task running until it has sent or is
\* dropped, a state with is_loading set is followed by one with is_loading
\* clear and no pending receiver, unless the loop has ended; and a task waiting
\* for the connection lock does not wait forever.
C30_EveryQueryResolved ==
    /\ is_loading ~> ((~is_loading /\ pending_query = None) \/ pc = "exit")
    /\ \A t \in TaskIds : (op[t].st = "wait") ~> (op[t].st # "wait")

C30_Witness ==
    /\ \E t \in TaskIds : op[t].st = "done" /\ consumed[t] = 1
    /\ \E t \in TaskIds : op[t].st = "wait"
    /\ pc # "exit"

\* --------------------------------------------- input while loading

\* the state of the application apart from should_quit
AllButQuit ==
    <<query, cursor_pos, result, is_loading, error, message, active_panel,
      results_tab, show_help, results_scroll, results_selected,
      results_col_selected, history, spinner_frame, pending_query,
      pending_query_text, bgVars, consumed>>

\* C31: while is_loading is true, a mouse event and a key event other than the
\* quit shortcut leave the whole application state as it was (query text,
\* cursor, selections, active panel, messages, help flag), and the quit
\* shortcut changes should_quit and nothing else.
C31_LoadingIgnoresInput ==
    [][/\ \A k \in Keys :
             (is_loading /\ RunKey(k)) =>
                 /\ UNCHANGED AllButQuit
                 /\ should_quit' = IF k = "CtrlC" THEN TRUE ELSE should_quit
       /\ \A m \in MouseKinds :
             (is_loading /\ RunMouse(m)) => UNCHANGED <<AllButQuit, should_quit>>
      ]_vars

\* the quit shortcut was pressed while a query with text in the editor was loading
C31_Witness ==
    /\ last = "key_loading"
    /\ is_loading
    /\ should_quit
    /\ pc = "exit"
    /\ query # <<>>

\* ------------------------------------------------- history recall

\* the entry at position i counted from the oldest (0), as the operator sees it
Recalled(i) == Some(history.entries[i + 1])
NewestIndex == Len(history.entries) - 1

\* C32: with a non-empty history, previous() from a reset cursor returns the
\* newest entry, each further previous() moves one entry toward the oldest and
\* stays on the oldest once reached; next() moves one entry toward the newest,
\* and returns nothing without moving the cursor when the cursor is on the
\* newest entry or is reset; on an empty history both return nothing.
C32_RecallNavigation ==
    [][/\ (call'.op = "previous" /\ history.entries # <<>>) =>
             LET at == IF call'.was = None THEN NewestIndex
                       ELSE IF Unwrap(call'.was) = 0 THEN 0
                       ELSE Unwrap(call'.was) - 1
             IN /\ history'.current_index = Some(at)
                /\ ret' = Recalled(at)
                /\ history'.entries = history.entries
       /\ (call'.op = "next" /\ history.entries # <<>>) =>
             IF call'.was = None \/ call'.was = Some(NewestIndex)
             THEN ret' = None /\ history' = history
             ELSE /\ history'.current_index = Some(Unwrap(call'.was) + 1)
                  /\ ret' = Recalled(Unwrap(call'.was) + 1)
                  /\ history'.entries = history.entries
       /\ (call'.op \in {"previous", "next"} /\ history.entries = <<>>) =>
             ret' = None /\ history' = history
      ]_vars

\* previous() was called with the cursor on the oldest of several entries
C32_Witness ==
    /\ call.op = "previous"
    /\ call.was = Some(0)
    /\ Len(history.entries) > 1
    /\ history.current_index = Some(0)
    /\ ret = Recalled(0)

\* C37: in every reachable state of QueryHistory under add, previous, next,
\* reset_navigation and clear, the recall cursor is reset or an index strictly
\* below the number of entries, and previous() and next() return nothing or an
\* entry of the sequence, also after evictions.
C37_CursorWithinEntries ==
    /\ \/ history.current_index = None
       \/ Unwrap(history.current_index) \in 0..(Len(history.entries) - 1)
    /\ call.op \in {"previous", "next"} =>
          \/ ret = None
          \/ \E i \in 1..Len(history.entries) : ret = Some(history.entries[i])

\* an add evicted entries while the cursor stood beyond what is left
C37_Witness ==
    /\ call.op = "add"
    /\ call.evicted > 1
    /\ IsSome(call.was)
    /\ Unwrap(call.was) >= Len(history.entries)
    /\ history.current_index = None

\* ------------------------------------------------ the pending slot

\* C33: in every reachable state of the run loop, is_loading is true if and only
\* if pending_query holds a receiver, if and only if pending_query_text holds
\* the submitted text: start_query sets the three together and
\* check_query_completion clears them together.
C33_LoadingIffPending ==
    /\ is_loading <=> IsSome(pending_query)
    /\ is_loading <=> IsSome(pending_query_text)
    /\ is_loading => pending_query_text = Some(query)
    /\ is_loading => Unwrap(pending_query) = spawned

\* the second query of a run is loading and a check has found nothing yet
C33_Witness ==
    /\ last = "check_waiting"
    /\ is_loading
    /\ spawned = 2
    /\ pending_query = Some(2)
    /\ pending_query_text = Some(query)

\* ------------------------------------------- error and message

\* check_query_completion finds a value on the channel or finds it closed
ObservesOutcome ==
    /\ CheckStep
    /\ IsSome(pending_query)
    /\ PendingChan.st \in {"full", "closed"}

Succeeds == PendingChan.st = "full" /\ PendingChan.val.ok

\* C34: immediately after check_query_completion observes an outcome, exactly
\* one of error and message is set: a success leaves message set and error
\* empty, a failure or an interruption leaves error set and message empty; no
\* error of an earlier query is left after a later successful completion.
C34_ErrorXorMessage ==
    [][ObservesOutcome =>
          IF Succeeds
          THEN IsSome(message') /\ error' = None
          ELSE IsSome(error') /\ message' = None
      ]_vars

\* the second query of a run has succeeded: its message is up and no error is
C34_Witness ==
    /\ last = "check_ok"
    /\ pc = "spin"
    /\ spawned = 2
    /\ consumed[2] = 1
    /\ IsSome(message)
    /\ error = None

\* ------------------------------------------------ the editor's cursor

\* C38: after any sequence of editor operations (typing, Tab, Shift+Enter,
\* Backspace, Delete, the arrows, Home, End, Esc, format, inserting a schema
\* object, loading a history entry) cursor_pos lies between 0 and the length of
\* the text, both included, so that an insert or a remove at cursor_pos is
\* within the text.
C38_CursorWithinText ==
    /\ cursor_pos >= 0
    /\ cursor_pos <= ByteLen(query)

\* format has put a keyword on a line of its own after a wide character: the
\* cursor is at the end of the longer text
C38_Witness ==
    /\ pc = "editor"
    /\ last = "format_sql"
    /\ \E i \in 1..Len(query) : query[i] \in Wide
    /\ \E i \in 1..Len(query) : query[i] = "\n"
    /\ cursor_pos = ByteLen(query)
    /\ cursor_pos > Len(query)

\* ------------------------------------------- the selections of the results

\* the foreground is between two handlers of the run loop
Settled == pc \in {"check", "spin", "poll", "exit"}

\* C35: after any sequence of key events, mouse events and query completions,
\* results_col_selected is a column index of the published result: less than
\* the number of columns, or 0 when there are none, also right after a result
\* with fewer columns has replaced the one before.
C35_ColumnSelectionValid ==
    Settled => results_col_selected <= SatSub(result.columns, 1)

\* C36: after any sequence of key events, mouse events and query completions,
\* results_selected is an index into the list the active tab shows (rows for
\* Data, columns for Columns), or 0 when that list is empty, also after a
\* change of tab.
C36_RowSelectionValid ==
    (Settled /\ results_tab \in {"Data", "Columns"}) =>
        results_selected <= SatSub(ResultsListLen, 1)

\* ------------------------------------------- the widths of the columns

\* the largest number of a nonempty set
SetMax(S) == CHOOSE m \in S : \A n \in S : n <= m

\* the answers in which execute returned a result
Returned == {k \in 1..Len(answers) : answers[k].kind = "query" /\ answers[k].ok}

\* the length of the text shown for a cell
DisplayLen(c) == ByteLen(CellToString(c))

\* the display lengths of the decoded cells at index i
CellLengths(rows, i) ==
    {DisplayLen(rows[r][i]) : r \in {r \in 1..Len(rows) : i <= Len(rows[r])}}

\* max_width of column i once the first n rows are decoded
WidthAfter(rows, i, n) == ColumnsOf(SubSeq(rows, 1, n))[i].max_width

\* C39: in every QueryResult execute returns, the max_width of each column is
\* the maximum of the length of its name, 4, and the display length of every
\* decoded cell at its index; while the rows are decoded it never decreases and
\* each cell updates it once: after a row it is the larger of what it was and
\* the display length of that row's cell.
C39_MaxWidthIsRunningMaximum ==
    \A k \in Returned :
       LET rows == AllRows(answers[k].drv.sets)
           columns == answers[k].out.res.columns
       IN \A i \in 1..Len(columns) :
             /\ columns[i].max_width =
                  SetMax({ByteLen(columns[i].name), MinWidth} \cup CellLengths(rows, i))
             /\ WidthAfter(rows, i, 1) =
                  Max(Max(ByteLen(columns[i].name), MinWidth), DisplayLen(rows[1][i]))
             /\ \A n \in 2..Len(rows) :
                   /\ WidthAfter(rows, i, n) >= WidthAfter(rows, i, n - 1)
                   /\ WidthAfter(rows, i, n) =
                        IF i <= Len(rows[n])
                        THEN Max(WidthAfter(rows, i, n - 1), DisplayLen(rows[n][i]))
                        ELSE WidthAfter(rows, i, n - 1)

\* a result was returned in which a column is as wide as a cell of wide
\* characters that a shorter cell follows, wider than its name and than 4
C39_Witness ==
    \E k \in Returned :
       LET rows == AllRows(answers[k].drv.sets)
           columns == answers[k].out.res.columns
       IN \E i \in 1..Len(columns) : \E r \in 1..Len(rows) : \E q \in 1..Len(rows) :
             /\ r < q
             /\ i <= Len(rows[q])
             /\ DisplayLen(rows[r][i]) > DisplayLen(rows[q][i])
             /\ DisplayLen(rows[r][i]) > Len(CellToString(rows[r][i]))
             /\ columns[i].max_width = DisplayLen(rows[r][i])
             /\ columns[i].max_width > Max(ByteLen(columns[i].name), MinWidth)

====
